---- MODULE Spec2Model ----
(***************************************************************************)
(* Verification model of the cvflo backend.                                *)
(*                                                                         *)
(* Part 1: the CV data store and its REST handlers                         *)
(*         (apps/cv_builder/views.py, CVDataView; models.py, CVProfile).   *)
(* Part 2: the fixed-window rate limiter                                   *)
(*         (apps/core/middleware/rate_limiting.py).                        *)
(*                                                                         *)
(* Specifications:                                                         *)
(*   Spec      requests to CVDataView served one at a time                 *)
(*   SpecConc  CVDataView handlers interleaved at their database statements*)
(*   SpecRL    the rate limiter, requests served one at a time             *)
(***************************************************************************)
EXTENDS Integers, FiniteSets, Sequences, TLC

VARIABLES
    cv_table,     \* the rows of table cv_data (CVProfile objects)
    last,         \* the request served last and the status it was answered with
    workers,      \* SpecConc: per request worker, its position and locals
    cache,        \* SpecRL: the rate-limit counters held by the cache backend
    now,          \* SpecRL: int(time.time())
    rate_limits,  \* SpecRL: the ENHANCED_RATE_LIMITS table in force
    seen,         \* SpecRL: requests served per (category, client) in its current window
    rl_last,      \* SpecRL: the outcome of the request served last
    categorized,  \* SpecCat: the path categorized last, its category and rate limit
    render_count, \* SpecPdf: how often HTML rendering and the PDF engine were invoked
    pdf_result,   \* SpecPdf: the call of generate_pdf_with_cache served last
    generated,    \* SpecPdf: per content, the bytes generated last and when they were stored
    futures,      \* SpecBatch: the futures of the batch, in submission order
    results,      \* SpecBatch: the list generate_pdf_batch builds
    batch_pc,     \* SpecBatch: where generate_pdf_batch is
    active_generations, \* SpecBatch: PDFGenerationPool.active_generations
    generation_count,   \* SpecBatch: PDFGenerationPool.generation_count
    gen_log,      \* SpecCleanup: the rows of table pdf_generations (PDFGenerationLog)
    cleanup,      \* SpecCleanup: the cleanup_generations run served last
    auth_users,   \* SpecAuth: the rows of table auth_user (django.contrib.auth User)
    auth_request, \* SpecAuth: the request that reached the authentication class last
    auth_result,  \* SpecAuth: what authenticate did with it
    health,       \* SpecHealth: the answer of SystemHealthView.get given last
    debug, \* SpecMw: settings.DEBUG
    mw_last,\* SpecMw: the request served last and the response that left the middleware chain
    suggested,\* SpecFn: the CV data given to get_suggested_filename and the name it returned
    pool_shutdown, \* SpecPool: whether PDFGenerationPool.shutdown was called
    pool_calls,\* SpecPool: per stage, the number of submit_generation calls that are there
    pdf_pool, \* SpecSingleton: the module global _pdf_pool (0 for None, else the number of the pool)
    pools_created, \* SpecSingleton: how many PDFGenerationPool objects were constructed
    getters,\* SpecSingleton: per request worker, where it is in get_pdf_pool and what it got
    rl_threads, \* SpecRLConc: per request thread, where it is in _check_rate_limit and its locals
    rl_admitted,\* SpecRLConc: per window index, the number of requests admitted
    rl_hist,\* SpecRLWin: per window index, the observed requests admitted and whether one was rejected
    gen_last,\* SpecGen: the call of _generate_pdf_sync served last and how it ended
    res_users, \* SpecResolve: the rows of table auth_user, each with its primary key
    res_threads, \* SpecResolve: per thread, where it is in get_or_create_django_user and its locals
    res_resolved, \* SpecResolve: the pairs of external identity and primary key that a resolution returned
    res_calls,\* SpecResolve: the number of resolutions begun
    tmp_files, \* SpecTmp: the temporary HTML files that exist on disk
    tmp_made, \* SpecTmp: the number of temporary files created so far
    tmp_last \* SpecTmp: the last conversion of HTML to PDF, its outcomes and its result

catVars == <<categorized>>

pdfVars == <<render_count, pdf_result, generated>>

batchVars == <<futures, results, batch_pc, active_generations, generation_count>>

\* The variables of the services other than the CV data store and the rate limiter.
logVars == <<gen_log, cleanup>>

authVars == <<auth_users, auth_request, auth_result>>

healthVars == <<health>>

\* The variables of parts 9 and later, and for each part those of the others.
mwVars == <<debug, mw_last>>

fnVars == <<suggested>>

poolVars == <<pool_shutdown, pool_calls>>

singleVars == <<pdf_pool, pools_created, getters>>

rlcVars == <<rl_threads, rl_admitted>>

rlwVars == <<rl_hist>>

genVars == <<gen_last>>

resVars == <<res_users, res_threads, res_resolved, res_calls>>

tmpVars == <<tmp_files, tmp_made, tmp_last>>

extVars == <<mwVars, fnVars, poolVars, singleVars, rlcVars, rlwVars, genVars, resVars, tmpVars>>

notMwVars == <<fnVars, poolVars, singleVars, rlcVars, rlwVars, genVars, resVars, tmpVars>>

notFnVars == <<mwVars, poolVars, singleVars, rlcVars, rlwVars, genVars, resVars, tmpVars>>

notPoolVars == <<mwVars, fnVars, singleVars, rlcVars, rlwVars, genVars, resVars, tmpVars>>

notSingleVars == <<mwVars, fnVars, poolVars, rlcVars, rlwVars, genVars, resVars, tmpVars>>

notRlcVars == <<mwVars, fnVars, poolVars, singleVars, rlwVars, genVars, resVars, tmpVars>>

notRlwVars == <<mwVars, fnVars, poolVars, singleVars, rlcVars, genVars, resVars, tmpVars>>

notGenVars == <<mwVars, fnVars, poolVars, singleVars, rlcVars, rlwVars, resVars, tmpVars>>

notResVars == <<mwVars, fnVars, poolVars, singleVars, rlcVars, rlwVars, genVars, tmpVars>>

notTmpVars == <<mwVars, fnVars, poolVars, singleVars, rlcVars, rlwVars, genVars, resVars>>

\* (end of the variable groups)

svcVars == <<catVars, pdfVars, batchVars, logVars, authVars, healthVars, extVars>>

vars == <<cv_table, last, workers, cache, now, rate_limits, seen, rl_last, svcVars>>

(***************************************************************************)
(* JSON values.  A JSON object of the CV content is a record over Keys     *)
(* whose field is Absent when the object does not hold that key.  "{}" is  *)
(* the empty map; "a" and "b" stand for two different non-empty values     *)
(* (two visibility maps, when they are held under the key visibility).     *)
(***************************************************************************)
Absent == "absent"

Keys == {"summary", "visibility"}

EmptyMap == "{}"

\* The values a supplied cv_data object holds under a key.
Vals(k) == IF k = "visibility" THEN {"a", "b"} ELSE {"a"}

Dicts == {d \in [Keys -> {"a", "b", Absent}] : \A k \in Keys : d[k] \in Vals(k) \cup {Absent}}

EmptyDict == [k \in Keys |-> Absent]

\* Python truthiness of a supplied value: None (absent), {} and "" are falsy.
Truthy(v) == v \notin {Absent, EmptyMap, ""}

\* request.data.get('cv_data'): absent, a non-dict value, or a JSON object.
CvDataInputs ==
    {[kind |-> "absent", d |-> EmptyDict], [kind |-> "scalar", d |-> EmptyDict]}
        \cup {[kind |-> "dict", d |-> d] : d \in Dicts}

VisibilityInputs == {Absent, EmptyMap, "a", "b"}

TemplateInputs == {Absent, "modern-0"}

Bodies ==
    [cv_data : CvDataInputs, visibility : VisibilityInputs,
     selected_template : TemplateInputs]

\* The handler without its `if not cv_data` check: every cv_data passes.
CvDataUnchecked(cv_data) == TRUE

\* `if not cv_data` / `if cv_data`: None and the empty object are falsy.
CvDataTruthy(cv_data) ==
    \/ cv_data.kind = "scalar"
    \/ cv_data.kind = "dict" /\ cv_data.d # EmptyDict

(***************************************************************************)
(* Identities.  0 is a request with no authenticated identity              *)
(* (request.user is AnonymousUser); the others are local user ids.         *)
(***************************************************************************)
NoIdentity == 0

UserIds == {1, 2}

Identities == {NoIdentity} \cup UserIds

IsAuthenticated(ident) == ident # NoIdentity

\* permission_classes = [AllowAny]
HasPermission(ident) == TRUE

\* user_id = request.user.id if request.user.is_authenticated else 1
PlaceholderUserId == 1

UserId(ident) == IF IsAuthenticated(ident) THEN ident ELSE PlaceholderUserId

\* logger.info(f'... {request.user.email}') after a write: AnonymousUser has no
\* attribute email, the AttributeError is caught by the handler's outer except.
LogUserEmailRaises(ident) == ~IsAuthenticated(ident)

(***************************************************************************)
(* The table cv_data.  user_id is a plain IntegerField: no unique index.   *)
(***************************************************************************)
DefaultTemplate == "classic-0"

Matching(t, uid) == {r \in t : r.user_id = uid}

\* CVProfile.objects.get(user_id=uid)
ObjectsGet(t, uid) ==
    LET m == Matching(t, uid) IN
    IF m = {} THEN [outcome |-> "DoesNotExist", rows |-> {}]
    ELSE IF Cardinality(m) = 1 THEN [outcome |-> "found", rows |-> m]
    ELSE [outcome |-> "MultipleObjectsReturned", rows |-> {}]

TheRow(got) == CHOOSE r \in got.rows : TRUE

\* id = UUIDField(default=uuid.uuid4): a value no row and no loaded object holds.
FreshId(used, uid) ==
    <<uid, CHOOSE n \in 1..(Cardinality(used) + 1) :
              /\ <<uid, n>> \notin used
              /\ \A m \in 1..(n - 1) : <<uid, m>> \in used>>

\* Model.save() of a loaded object: UPDATE ... WHERE id = pk, INSERT when no row matched.
SaveRow(t, row) == {r \in t : r.id # row.id} \cup {row}

\* DELETE with no WHERE clause.
DeleteEveryRow(t, row) == {}

\* Model.delete(): DELETE ... WHERE id = pk
DeleteRow(t, row) == {r \in t : r.id # row.id}

(***************************************************************************)
(* Responses.                                                              *)
(***************************************************************************)
NullDoc == [kind |-> "null", d |-> EmptyDict]

Doc(d) == [kind |-> "dict", d |-> d]

Response(status, cv_data, visibility, template, text) ==
    [status |-> status, cv_data |-> cv_data, visibility |-> visibility,
     selected_template |-> template, text |-> text]

Plain(status, text) == Response(status, NullDoc, "null", "null", text)

\* A get that answers a missing profile with 404.
GetNotFound(t, ident) ==
    LET got == ObjectsGet(t, UserId(ident)) IN
    IF got.outcome = "found"
    THEN LET row == TheRow(got) IN
         Response(200, Doc(row.cv_content),
                  IF row.cv_content["visibility"] = Absent THEN EmptyMap
                  ELSE row.cv_content["visibility"],
                  row.template_name, "")
    ELSE IF got.outcome = "DoesNotExist" THEN Plain(404, "CV data not found")
    ELSE Plain(500, "Failed to retrieve CV data")

\* CVDataView.get
Get(t, ident) ==
    LET got == ObjectsGet(t, UserId(ident)) IN
    IF ~HasPermission(ident) THEN Plain(401, "Authentication credentials were not provided.")
    ELSE IF got.outcome = "DoesNotExist"
    THEN Response(200, NullDoc, "null", "classic-0", "No CV data found")
    ELSE IF got.outcome = "found"
    THEN LET row == TheRow(got) IN
         Response(200, Doc(row.cv_content),
                  IF row.cv_content["visibility"] = Absent THEN EmptyMap
                  ELSE row.cv_content["visibility"],
                  row.template_name, "")
    ELSE Plain(500, "Failed to retrieve CV data")

\* cv_content = {} in place of cv_data.copy(): the sections are dropped.
PostContentWithoutCopy(cv_data, visibility) ==
    [EmptyDict EXCEPT !["visibility"] = visibility]

\* Combine cv_data and visibility into cv_content (CVDataView.post)
PostContent(cv_data, visibility) ==
    [(IF cv_data.kind = "dict" THEN cv_data.d ELSE EmptyDict)
        EXCEPT !["visibility"] = visibility]

\* request.data.get('visibility', {})
PostVisibility(body) ==
    IF body.visibility = Absent THEN EmptyMap ELSE body.visibility

\* request.data.get('selected_template', 'classic-0')
PostTemplate(body) ==
    IF body.selected_template = Absent THEN DefaultTemplate ELSE body.selected_template

Ids(t) == {r.id : r \in t}

\* CVDataView.post: the table after the request, and the response.
Post(t, ident, body) ==
    LET uid == UserId(ident)
        cv_content == PostContent(body.cv_data, PostVisibility(body))
        got == ObjectsGet(t, uid)
    IN
    IF ~HasPermission(ident)
    THEN [table |-> t, resp |-> Plain(401, "Authentication credentials were not provided.")]
    ELSE IF ~CvDataTruthy(body.cv_data)
    THEN [table |-> t, resp |-> Plain(400, "CV data is required")]
    ELSE IF got.outcome = "MultipleObjectsReturned"
    THEN [table |-> t, resp |-> Plain(500, "Failed to save CV data")]
    ELSE LET saved ==
                 IF got.outcome = "DoesNotExist"
                 THEN t \cup {[id |-> FreshId(Ids(t), uid), user_id |-> uid,
                               cv_content |-> cv_content,
                               template_name |-> PostTemplate(body)]}
                 ELSE SaveRow(t, [TheRow(got) EXCEPT
                                     !.cv_content = cv_content,
                                     !.template_name = PostTemplate(body)])
         IN
         IF LogUserEmailRaises(ident)
         THEN [table |-> saved, resp |-> Plain(500, "Failed to save CV data")]
         ELSE [table |-> saved, resp |-> Plain(200, "CV data saved successfully")]

\* cv_profile.cv_content.update(cv_data)
DictUpdate(old, new) ==
    [k \in Keys |-> IF new[k] # Absent THEN new[k] ELSE old[k]]

\* cv_content = cv_data in place of cv_content.update(cv_data): a replace, no merge.
PutReplace(row, body) ==
    LET c1 == IF CvDataTruthy(body.cv_data) THEN body.cv_data.d ELSE row.cv_content
        c2 == IF Truthy(body.visibility)
              THEN [c1 EXCEPT !["visibility"] = body.visibility]
              ELSE c1
    IN [row EXCEPT !.cv_content = c2,
                   !.template_name = IF Truthy(body.selected_template)
                                     THEN body.selected_template
                                     ELSE row.template_name]

\* CVDataView.put, lines 154-166: the loaded object after the three conditional updates.
PutMerge(row, body) ==
    LET c1 == IF CvDataTruthy(body.cv_data)
              THEN DictUpdate(row.cv_content, body.cv_data.d)
              ELSE row.cv_content
        c2 == IF Truthy(body.visibility)
              THEN [c1 EXCEPT !["visibility"] = body.visibility]
              ELSE c1
    IN [row EXCEPT !.cv_content = c2,
                   !.template_name = IF Truthy(body.selected_template)
                                     THEN body.selected_template
                                     ELSE row.template_name]

\* dict.update raises for a value that is no mapping (and no sequence of pairs).
UpdateRaises(cv_data) == cv_data.kind = "scalar"

\* A put that creates the profile it does not find.
PutUpsert(t, ident, body) ==
    LET got == ObjectsGet(t, UserId(ident)) IN
    IF got.outcome = "DoesNotExist" THEN Post(t, ident, body)
    ELSE IF got.outcome = "MultipleObjectsReturned" \/ UpdateRaises(body.cv_data)
    THEN [table |-> t, resp |-> Plain(500, "Failed to update CV data")]
    ELSE LET saved == SaveRow(t, PutMerge(TheRow(got), body)) IN
         IF LogUserEmailRaises(ident)
         THEN [table |-> saved, resp |-> Plain(500, "Failed to update CV data")]
         ELSE [table |-> saved, resp |-> Plain(200, "CV data updated successfully")]

\* CVDataView.put
Put(t, ident, body) ==
    LET got == ObjectsGet(t, UserId(ident)) IN
    IF ~HasPermission(ident)
    THEN [table |-> t, resp |-> Plain(401, "Authentication credentials were not provided.")]
    ELSE IF got.outcome = "DoesNotExist"
    THEN [table |-> t,
          resp |-> Plain(404, "CV data not found. Use POST to create new CV data.")]
    ELSE IF got.outcome = "MultipleObjectsReturned" \/ UpdateRaises(body.cv_data)
    THEN [table |-> t, resp |-> Plain(500, "Failed to update CV data")]
    ELSE LET saved == SaveRow(t, PutMerge(TheRow(got), body)) IN
         IF LogUserEmailRaises(ident)
         THEN [table |-> saved, resp |-> Plain(500, "Failed to update CV data")]
         ELSE [table |-> saved, resp |-> Plain(200, "CV data updated successfully")]

\* CVDataView.delete
Delete(t, ident) ==
    LET got == ObjectsGet(t, UserId(ident)) IN
    IF ~HasPermission(ident)
    THEN [table |-> t, resp |-> Plain(401, "Authentication credentials were not provided.")]
    ELSE IF got.outcome = "DoesNotExist"
    THEN [table |-> t, resp |-> Plain(404, "CV data not found")]
    ELSE IF got.outcome = "MultipleObjectsReturned"
    THEN [table |-> t, resp |-> Plain(500, "Failed to delete CV data")]
    ELSE LET removed == DeleteRow(t, TheRow(got)) IN
         IF LogUserEmailRaises(ident)
         THEN [table |-> removed, resp |-> Plain(500, "Failed to delete CV data")]
         ELSE [table |-> removed, resp |-> Plain(200, "CV data deleted successfully")]

(***************************************************************************)
(* Spec: requests served one at a time.                                    *)
(***************************************************************************)
NoBody ==
    [cv_data |-> [kind |-> "absent", d |-> EmptyDict], visibility |-> Absent,
     selected_template |-> Absent]

\* last: the request served last, its status, and (saved) the body of a Create-or-save
\* that was answered 200.
Served(op, ident, status) ==
    [op |-> op, ident |-> ident, status |-> status, saved |-> NoBody]

NoRequest == Served("none", NoIdentity, 0)

rlVars == <<cache, now, rate_limits, seen, rl_last>>

otherVars == <<workers, rlVars, svcVars>>

\* The rate limiter at rest, for the specifications that do not run it.
InitRL ==
    /\ cache = {}
    /\ now = 0
    /\ rate_limits = <<>>
    /\ seen = <<>>
    /\ rl_last = <<>>

InitCV ==
    /\ cv_table = {}
    /\ last = NoRequest

InitWorkers == workers = <<>>

\* No path was categorized yet.
NotCategorized ==
    [path |-> <<>>, limit_category |-> "none", rate_limit |-> [requests |-> 0, window |-> 0]]

InitCat == categorized = NotCategorized

\* generate_pdf_with_cache was not called yet.
NoPdfRequest == [cv_data |-> <<>>, visibility |-> <<>>, template_name |-> ""]

\* None in the place of PDF bytes.
NoBytes ==
    [content |-> [cv_data |-> {}, visibility |-> {}, template_name |-> ""], render |-> 0]

NoPdfResult ==
    [request |-> NoPdfRequest, cache_key |-> <<>>, pdf_data |-> NoBytes,
     was_cached |-> FALSE, outcome |-> "none"]

InitPdf ==
    /\ render_count = 0
    /\ pdf_result = NoPdfResult
    /\ generated = {}

\* The pool before generate_pdf_batch is called.
InitPool ==
    /\ futures = <<>>
    /\ results = <<>>
    /\ batch_pc = "idle"
    /\ active_generations = 0
    /\ generation_count = 0

\* cleanup_generations did not run yet.
NoCleanup ==
    [days |-> 0, keep_failed |-> FALSE, dry_run |-> FALSE, stats |-> FALSE,
     confirm |-> "", outcome |-> "none"]

InitLog ==
    /\ gen_log = {}
    /\ cleanup = NoCleanup

\* No request reached the authentication class yet.
NoHeader == [present |-> FALSE, value |-> <<>>]

NoAuthRequest == [header |-> NoHeader, variant |-> "none"]

NoSupabaseUser == [id |-> "none", email |-> "none"]

NoDjangoUser == [username |-> "none", email |-> "none"]

NoAuthResult ==
    [outcome |-> "idle", user |-> NoDjangoUser, token |-> <<>>,
     supabase_user |-> NoSupabaseUser, verifier_called |-> FALSE,
     response |-> [kind |-> "none", user |-> NoSupabaseUser], db_ok |-> TRUE,
     users_before |-> {}]

InitAuth ==
    /\ auth_users = {}
    /\ auth_request = NoAuthRequest
    /\ auth_result = NoAuthResult

\* The health endpoint was not asked yet.
NoHealth ==
    [status |-> "none", status_code |-> 0, timestamp |-> 0,
     database |-> "none", cache |-> "none", pdf_service |-> "none",
     statistics |-> FALSE,
     probes |-> [database |-> "none", cache |-> "none", engine |-> "none",
                 counts |-> "none"]]

InitHealth == health = NoHealth

\* No request passed the middleware chain yet.
NoMwRequest ==
    [preflight |-> FALSE, secure |-> FALSE, slash |-> TRUE, limited |-> FALSE,
     view_status |-> 0, view_x_frame_options |-> "absent"]

NoMwResponse ==
    [status |-> 0, made_by |-> 0, x_frame_options |-> "absent",
     strict_transport_security |-> "absent"]

IdleMw ==
    /\ debug = TRUE
    /\ mw_last = [request |-> NoMwRequest, response |-> NoMwResponse]

\* get_suggested_filename was not called yet.
NoName == [kind |-> "absent", value |-> <<>>]

IdleFn ==
    suggested = [cv_data |-> [kind |-> "dict", personal_info |-> "absent",
                              first_name |-> NoName, last_name |-> NoName],
                 called |-> FALSE, filename |-> <<>>]

\* The pool after __init__: no call of submit_generation yet.
NoCalls == [submitting |-> 0, pending |-> 0, returned |-> 0, failed |-> 0, refused |-> 0]

IdlePool ==
    /\ pool_shutdown = FALSE
    /\ pool_calls = NoCalls

\* The module after import: _pdf_pool = None, nobody calls get_pdf_pool.
IdleSingle ==
    /\ pdf_pool = 0
    /\ pools_created = 0
    /\ getters = <<>>

\* No request thread is in _check_rate_limit.
IdleRlc ==
    /\ rl_threads = <<>>
    /\ rl_admitted = <<>>

\* No request was counted yet.
IdleRlw == rl_hist = <<>>

\* _generate_pdf_sync was not called yet.
IdleGen ==
    gen_last = [route |-> "none", user_id |-> 0, template_name |-> "", fate |-> "none",
                user_exists |-> FALSE, raised |-> "none", tracked |-> "none", at |-> 0]

\* No resolution of an external identity was begun yet.
IdleRes ==
    /\ res_users = {}
    /\ res_threads = <<>>
    /\ res_resolved = {}
    /\ res_calls = 0

\* No HTML was converted to PDF yet.
NoConversion ==
    [service |-> "none", path |-> 0, raised |-> "none",
     outcomes |-> [config |-> "ok", create |-> "ok", write |-> "ok", construct |-> "ok",
                   css |-> "ok", render |-> "ok"]]

IdleTmp ==
    /\ tmp_files = {}
    /\ tmp_made = 0
    /\ tmp_last = NoConversion

\* Parts 9 and later before their first operation.
InitExt == IdleMw /\ IdleFn /\ IdlePool /\ IdleSingle /\ IdleRlc /\ IdleRlw /\ IdleGen /\ IdleRes /\ IdleTmp

InitNotMw == IdleFn /\ IdlePool /\ IdleSingle /\ IdleRlc /\ IdleRlw /\ IdleGen /\ IdleRes /\ IdleTmp

InitNotFn == IdleMw /\ IdlePool /\ IdleSingle /\ IdleRlc /\ IdleRlw /\ IdleGen /\ IdleRes /\ IdleTmp

InitNotPool == IdleMw /\ IdleFn /\ IdleSingle /\ IdleRlc /\ IdleRlw /\ IdleGen /\ IdleRes /\ IdleTmp

InitNotSingle == IdleMw /\ IdleFn /\ IdlePool /\ IdleRlc /\ IdleRlw /\ IdleGen /\ IdleRes /\ IdleTmp

InitNotRlc == IdleMw /\ IdleFn /\ IdlePool /\ IdleSingle /\ IdleRlw /\ IdleGen /\ IdleRes /\ IdleTmp

InitNotRlw == IdleMw /\ IdleFn /\ IdlePool /\ IdleSingle /\ IdleRlc /\ IdleGen /\ IdleRes /\ IdleTmp

InitNotGen == IdleMw /\ IdleFn /\ IdlePool /\ IdleSingle /\ IdleRlc /\ IdleRlw /\ IdleRes /\ IdleTmp

InitNotRes == IdleMw /\ IdleFn /\ IdlePool /\ IdleSingle /\ IdleRlc /\ IdleRlw /\ IdleGen /\ IdleTmp

InitNotTmp == IdleMw /\ IdleFn /\ IdlePool /\ IdleSingle /\ IdleRlc /\ IdleRlw /\ IdleGen /\ IdleRes

\* (end of the idle states)

\* The other services before their first operation.
InitSvc == InitCat /\ InitPdf /\ InitPool /\ InitLog /\ InitAuth /\ InitHealth /\ InitExt

Init == InitCV /\ InitWorkers /\ InitRL /\ InitSvc

GetAction(ident) ==
    /\ last' = Served("GET", ident, Get(cv_table, ident).status)
    /\ UNCHANGED <<cv_table, otherVars>>

PostAction(ident, body) ==
    LET out == Post(cv_table, ident, body) IN
    /\ cv_table' = out.table
    /\ last' = [Served("POST", ident, out.resp.status) EXCEPT
                    !.saved = IF out.resp.status = 200 THEN body ELSE NoBody]
    /\ UNCHANGED otherVars

PutAction(ident, body) ==
    LET out == Put(cv_table, ident, body) IN
    /\ cv_table' = out.table
    /\ last' = Served("PUT", ident, out.resp.status)
    /\ UNCHANGED otherVars

DeleteAction(ident) ==
    LET out == Delete(cv_table, ident) IN
    /\ cv_table' = out.table
    /\ last' = Served("DELETE", ident, out.resp.status)
    /\ UNCHANGED otherVars

Next ==
    \/ \E ident \in Identities : GetAction(ident)
    \/ \E ident \in Identities, body \in Bodies : PostAction(ident, body)
    \/ \E ident \in Identities, body \in Bodies : PutAction(ident, body)
    \/ \E ident \in Identities : DeleteAction(ident)

Spec == Init /\ [][Next]_vars

(***************************************************************************)
(* SpecConc: several request workers run CVDataView concurrently.  Each    *)
(* database statement is one step (autocommit: settings.py sets neither    *)
(* ATOMIC_REQUESTS nor a transaction around the handlers), and the steps   *)
(* of different workers interleave freely.                                 *)
(***************************************************************************)
MaxWorkers == 2

Workers == 1..MaxWorkers

\* The bodies the concurrent requests carry.
ConcBodies ==
    {b \in Bodies : /\ b.cv_data.kind = "dict"
                    /\ b.cv_data.d["visibility"] = Absent
                    /\ b.visibility = Absent
                    /\ b.selected_template = Absent}

NoRow ==
    [id |-> <<0, 0>>, user_id |-> 0, cv_content |-> EmptyDict, template_name |-> ""]

Idle == [pc |-> "idle", ident |-> NoIdentity, body |-> NoBody, row |-> NoRow]

\* The ids of the CVProfile objects the workers hold in memory.
HeldIds == {workers[w].row.id : w \in Workers} \ {NoRow.id}

InitConc ==
    /\ InitCV
    /\ workers = [w \in Workers |-> Idle]
    /\ InitRL
    /\ InitSvc

\* The worker answers the request and is free again.
Respond(w, op, status) ==
    /\ workers' = [workers EXCEPT ![w] = Idle]
    /\ last' = Served(op, workers[w].ident, status)

Goto(w, pc, row) ==
    /\ workers' = [workers EXCEPT ![w].pc = pc, ![w].row = row]
    /\ UNCHANGED last

WriteStatus(ident) == IF LogUserEmailRaises(ident) THEN 500 ELSE 200

\* CVDataView.get: one SELECT, no write.
ConcGet(w, ident) ==
    /\ workers[w].pc = "idle"
    /\ last' = Served("GET", ident, Get(cv_table, ident).status)
    /\ UNCHANGED <<cv_table, workers, rlVars, svcVars>>

\* CVDataView.post up to the call of get_or_create: the 400 for a missing cv_data.
ConcPostBegin(w, ident, body) ==
    /\ workers[w].pc = "idle"
    /\ IF ~CvDataTruthy(body.cv_data)
       THEN /\ last' = Served("POST", ident, 400)
            /\ UNCHANGED workers
       ELSE /\ workers' = [workers EXCEPT ![w] =
                             [pc |-> "post_get", ident |-> ident, body |-> body,
                              row |-> NoRow]]
            /\ UNCHANGED last
    /\ UNCHANGED <<cv_table, rlVars, svcVars>>

\* get_or_create: the SELECT.
ConcPostGet(w) ==
    /\ workers[w].pc = "post_get"
    /\ LET got == ObjectsGet(cv_table, UserId(workers[w].ident)) IN
       IF got.outcome = "found" THEN Goto(w, "post_save", TheRow(got))
       ELSE IF got.outcome = "DoesNotExist" THEN Goto(w, "post_create", NoRow)
       ELSE Respond(w, "POST", 500)
    /\ UNCHANGED <<cv_table, rlVars, svcVars>>

\* get_or_create: the INSERT, after the SELECT found no row.
ConcPostCreate(w) ==
    /\ workers[w].pc = "post_create"
    /\ LET uid == UserId(workers[w].ident)
           body == workers[w].body
       IN cv_table' = cv_table \cup
              {[id |-> FreshId(Ids(cv_table) \cup HeldIds, uid), user_id |-> uid,
                cv_content |-> PostContent(body.cv_data, PostVisibility(body)),
                template_name |-> PostTemplate(body)]}
    /\ Respond(w, "POST", WriteStatus(workers[w].ident))
    /\ UNCHANGED <<rlVars, svcVars>>

\* `if not created:` cv_profile.save() of the row the SELECT returned.
ConcPostSave(w) ==
    /\ workers[w].pc = "post_save"
    /\ LET body == workers[w].body IN
       cv_table' = SaveRow(cv_table,
                      [workers[w].row EXCEPT
                          !.cv_content = PostContent(body.cv_data, PostVisibility(body)),
                          !.template_name = PostTemplate(body)])
    /\ Respond(w, "POST", WriteStatus(workers[w].ident))
    /\ UNCHANGED <<rlVars, svcVars>>

ConcPutBegin(w, ident, body) ==
    /\ workers[w].pc = "idle"
    /\ workers' = [workers EXCEPT ![w] =
                      [pc |-> "put_get", ident |-> ident, body |-> body, row |-> NoRow]]
    /\ UNCHANGED <<cv_table, last, rlVars, svcVars>>

\* CVDataView.put: the SELECT and the in-memory merge.
ConcPutGet(w) ==
    /\ workers[w].pc = "put_get"
    /\ LET got == ObjectsGet(cv_table, UserId(workers[w].ident)) IN
       IF got.outcome = "DoesNotExist" THEN Respond(w, "PUT", 404)
       ELSE IF got.outcome = "MultipleObjectsReturned" \/ UpdateRaises(workers[w].body.cv_data)
       THEN Respond(w, "PUT", 500)
       ELSE Goto(w, "put_save", PutMerge(TheRow(got), workers[w].body))
    /\ UNCHANGED <<cv_table, rlVars, svcVars>>

\* CVDataView.put: cv_profile.save()
ConcPutSave(w) ==
    /\ workers[w].pc = "put_save"
    /\ cv_table' = SaveRow(cv_table, workers[w].row)
    /\ Respond(w, "PUT", WriteStatus(workers[w].ident))
    /\ UNCHANGED <<rlVars, svcVars>>

ConcDeleteBegin(w, ident) ==
    /\ workers[w].pc = "idle"
    /\ workers' = [workers EXCEPT ![w] =
                      [pc |-> "delete_get", ident |-> ident, body |-> NoBody, row |-> NoRow]]
    /\ UNCHANGED <<cv_table, last, rlVars, svcVars>>

\* CVDataView.delete: the SELECT.
ConcDeleteGet(w) ==
    /\ workers[w].pc = "delete_get"
    /\ LET got == ObjectsGet(cv_table, UserId(workers[w].ident)) IN
       IF got.outcome = "DoesNotExist" THEN Respond(w, "DELETE", 404)
       ELSE IF got.outcome = "MultipleObjectsReturned" THEN Respond(w, "DELETE", 500)
       ELSE Goto(w, "delete_row", TheRow(got))
    /\ UNCHANGED <<cv_table, rlVars, svcVars>>

\* CVDataView.delete: cv_profile.delete()
ConcDeleteRow(w) ==
    /\ workers[w].pc = "delete_row"
    /\ cv_table' = DeleteRow(cv_table, workers[w].row)
    /\ Respond(w, "DELETE", WriteStatus(workers[w].ident))
    /\ UNCHANGED <<rlVars, svcVars>>

NextConc ==
    \/ \E w \in Workers, ident \in Identities : ConcGet(w, ident)
    \/ \E w \in Workers, ident \in Identities, body \in ConcBodies :
          ConcPostBegin(w, ident, body)
    \/ \E w \in Workers : ConcPostGet(w)
    \/ \E w \in Workers : ConcPostCreate(w)
    \/ \E w \in Workers : ConcPostSave(w)
    \/ \E w \in Workers, ident \in Identities, body \in ConcBodies :
          ConcPutBegin(w, ident, body)
    \/ \E w \in Workers : ConcPutGet(w)
    \/ \E w \in Workers : ConcPutSave(w)
    \/ \E w \in Workers, ident \in Identities : ConcDeleteBegin(w, ident)
    \/ \E w \in Workers : ConcDeleteGet(w)
    \/ \E w \in Workers : ConcDeleteRow(w)

SpecConc == InitConc /\ [][NextConc]_vars

\* C1: after any interleaving of Create-or-save, Update and Delete requests, at most
\* one CV Profile row exists per user id.
C1_AtMostOneProfilePerUser ==
    \A uid \in UserIds : Cardinality(Matching(cv_table, uid)) <= 1

(***************************************************************************)
(* Part 2: EnhancedRateLimitMiddleware (fixed-window rate limiting).       *)
(***************************************************************************)
Categories == {"default", "pdf_generation", "preview_generation", "api_general"}

MaxLimit == 2

MaxWindow == 2

MaxTime == 2

\* How many requests past its limit one client sends inside one window.
MaxOver == 1

\* A request path is the sequence of its segments: /api/cv/data/ is <<"api","cv","data">>.
RLPaths == {<<"api", "pdf", "generate-pdf">>, <<"api", "cv", "data">>, <<"admin">>}

\* user: request.user as the middleware sees it, set by Django's
\* AuthenticationMiddleware from the session (0: AnonymousUser).  bearer: the local
\* user the token of the Authorization header resolves to when the view's
\* SupabaseAuthentication runs (0: no header).  And the addresses.
RLRequests ==
    {r \in [user : {0, 1}, bearer : {0, 1}, xff : {""}, remote_addr : {"10.0.0.1"},
            path : RLPaths] :
        /\ r.user = 0 => r.path # <<"api", "cv", "data">>
        /\ r.user # 0 => r.path # <<"admin">>
        /\ r.bearer # 0 => r.user = 0 /\ r.path = <<"api", "pdf", "generate-pdf">>}

\* The tables ENHANCED_RATE_LIMITS may hold: any entry for the generation
\* categories, one request in the widest window for the other categories.
RateLimitEntries == [requests : 1..MaxLimit, window : 1..MaxWindow]

RateLimitTables ==
    {[c \in Categories |->
         IF c \in {"pdf_generation", "preview_generation"} THEN g
         ELSE [requests |-> 1, window |-> MaxWindow]]
        : g \in RateLimitEntries}

\* _should_skip_rate_limiting
ShouldSkipRateLimiting(path) ==
    Len(path) >= 1 /\ path[1] \in {"admin", "health", "static", "media"}

\* The segments that start with generate-pdf, and those that start with generate-preview.
GeneratePdfSegments == {"generate-pdf", "generate-pdf-from-html"}

GeneratePreviewSegments == {"generate-preview"}

\* '/api/pdf/<prefix>' in path, for the segments that start with <prefix>
ContainsApiPdf(path, prefixed) ==
    \E i \in 1..(Len(path) - 2) :
        path[i] = "api" /\ path[i + 1] = "pdf" /\ path[i + 2] \in prefixed

\* The category selector with the /api/ test first: no path reaches the generation
\* categories.
GetRateLimitCategoryApiFirst(path) ==
    IF Len(path) >= 1 /\ path[1] = "api" THEN "api_general"
    ELSE IF ContainsApiPdf(path, GeneratePdfSegments) THEN "pdf_generation"
    ELSE IF ContainsApiPdf(path, GeneratePreviewSegments) THEN "preview_generation"
    ELSE "default"

\* _get_rate_limit_category
GetRateLimitCategory(path) ==
    IF ContainsApiPdf(path, GeneratePdfSegments) THEN "pdf_generation"
    ELSE IF ContainsApiPdf(path, GeneratePreviewSegments) THEN "preview_generation"
    ELSE IF Len(path) >= 1 /\ path[1] = "api" THEN "api_general"
    ELSE "default"

\* _get_client_identifier
GetClientIdentifier(req) ==
    IF req.user # 0 THEN [kind |-> "user", user |-> req.user, ip |-> ""]
    ELSE [kind |-> "ip", user |-> 0,
          ip |-> IF req.xff # "" THEN req.xff ELSE req.remote_addr]

RLClients == {GetClientIdentifier(req) : req \in RLRequests}

\* cache.get(key, default): an entry past its timeout is no entry.
CacheGet(c, key, default, t) ==
    LET hit == {e \in c : e.key = key /\ e.expires > t} IN
    IF hit = {} THEN default ELSE (CHOOSE e \in hit : TRUE).value

\* cache.set(key, value, timeout)
CacheSet(c, key, value, timeout, t) ==
    {e \in c : e.key # key} \cup {[key |-> key, value |-> value, expires |-> t + timeout]}

\* The entries the cache still holds at time t.
Unexpired(c, t) == {e \in c : e.expires > t}

\* `current_count > limit` in place of `>=`: one request more is admitted.
CheckRateLimitOffByOne(c, t, client_id, category, rate_limit) ==
    LET window == rate_limit.window
        limit == rate_limit.requests
        current_window == t \div window
        cache_key == <<category, client_id, current_window>>
        current_count == CacheGet(c, cache_key, 0, t)
    IN IF current_count > limit
       THEN [is_allowed |-> FALSE, remaining |-> 0,
             reset_time |-> (current_window + 1) * window, cache |-> c]
       ELSE [is_allowed |-> TRUE, remaining |-> limit - (current_count + 1),
             reset_time |-> (current_window + 1) * window,
             cache |-> CacheSet(c, cache_key, current_count + 1, window, t)]

\* _check_rate_limit with a cache key that leaves out the client.
CheckRateLimitPerCategory(c, t, client_id, category, rate_limit) ==
    LET window == rate_limit.window
        limit == rate_limit.requests
        current_window == t \div window
        cache_key == <<category, [kind |-> "none", user |-> 0, ip |-> ""], current_window>>
        current_count == CacheGet(c, cache_key, 0, t)
    IN IF current_count >= limit
       THEN [is_allowed |-> FALSE, remaining |-> 0,
             reset_time |-> (current_window + 1) * window, cache |-> c]
       ELSE [is_allowed |-> TRUE, remaining |-> limit - (current_count + 1),
             reset_time |-> (current_window + 1) * window,
             cache |-> CacheSet(c, cache_key, current_count + 1, window, t)]

\* _check_rate_limit at time t: (is_allowed, remaining, reset_time) and the cache after.
CheckRateLimit(c, t, client_id, category, rate_limit) ==
    LET window == rate_limit.window
        limit == rate_limit.requests
        current_window == t \div window
        cache_key == <<category, client_id, current_window>>
        current_count == CacheGet(c, cache_key, 0, t)
    IN IF current_count >= limit
       THEN [is_allowed |-> FALSE, remaining |-> 0,
             reset_time |-> (current_window + 1) * window, cache |-> c]
       ELSE [is_allowed |-> TRUE, remaining |-> limit - (current_count + 1),
             reset_time |-> (current_window + 1) * window,
             cache |-> CacheSet(c, cache_key, current_count + 1, window, t)]

NoClient == [kind |-> "none", user |-> 0, ip |-> ""]

\* rl_last: what process_request did with the request served last.  status 0: no
\* response of the middleware's own, the request goes on to the view.  nth and
\* checked_at: the request's rank among its client's requests of that category in
\* the window, and the time _check_rate_limit read; bearer: the user its token
\* resolves to.
RLNone ==
    [outcome |-> "none", client |-> NoClient, category |-> "default", status |-> 0,
     limit |-> 0, window |-> 0, remaining |-> 0, reset_time |-> 0, retry_after |-> 0,
     nth |-> 0, checked_at |-> 0, bearer |-> 0]

\* request.rate_limit_info of an admitted request / the 429 body of a rejected one.
RLOutcome(outcome, status, rate_limit, res, retry_after) ==
    [RLNone EXCEPT !.outcome = outcome, !.status = status,
                   !.limit = rate_limit.requests, !.window = rate_limit.window,
                   !.remaining = IF res.is_allowed THEN res.remaining ELSE 0,
                   !.reset_time = res.reset_time, !.retry_after = retry_after]

\* The requests counted so far in the window of each (category, client), when the
\* clock goes from t to u: a category whose window index changes starts from 0.
SeenAfter(s, t, u) ==
    [p \in DOMAIN s |->
        IF t \div rate_limits[p[1]].window = u \div rate_limits[p[1]].window
        THEN s[p] ELSE 0]

InitRLimiter ==
    /\ InitCV
    /\ InitWorkers
    /\ cache = {}
    /\ now = 0
    /\ rate_limits \in RateLimitTables
    /\ seen = [p \in Categories \X RLClients |-> 0]
    /\ rl_last = RLNone
    /\ InitSvc

cvVars == <<cv_table, last, workers>>

\* process_request for a path rate limiting skips.
RLSkip(req) ==
    /\ ShouldSkipRateLimiting(req.path)
    /\ rl_last' = [RLNone EXCEPT !.outcome = "skipped"]
    /\ UNCHANGED <<cache, now, rate_limits, seen, cvVars, svcVars>>

\* process_request for a counted path.  delay: the seconds that pass between the clock
\* read of _check_rate_limit and the one that computes retry_after.
RLProcessRequest(req, delay) ==
    LET category == GetRateLimitCategory(req.path)
        rate_limit == rate_limits[category]
        client == GetClientIdentifier(req)
        res == CheckRateLimit(cache, now, client, category, rate_limit)
        nth == seen[<<category, client>>] + 1
        counted == [seen EXCEPT ![<<category, client>>] = nth]
        ghost(o) == [o EXCEPT !.client = client, !.category = category,
                              !.nth = nth, !.checked_at = now, !.bearer = req.bearer]
    IN
    /\ ~ShouldSkipRateLimiting(req.path)
    /\ nth <= rate_limit.requests + MaxOver
    /\ IF res.is_allowed
       THEN /\ delay = 0
            /\ cache' = res.cache
            /\ now' = now
            /\ seen' = counted
            /\ rl_last' = ghost(RLOutcome("admitted", 0, rate_limit, res, 0))
       ELSE /\ now + delay <= MaxTime
            /\ now' = now + delay
            /\ cache' = Unexpired(res.cache, now')
            /\ seen' = SeenAfter(counted, now, now')
            /\ rl_last' = ghost(RLOutcome("rejected", 429, rate_limit, res,
                                          res.reset_time - now'))
    /\ UNCHANGED <<rate_limits, cvVars, svcVars>>

\* The steps of process_request that can raise: the category selector,
\* _get_client_identifier, cache.get, cache.set, and building the 429 response.
RLFaultSteps == {"category", "client", "cache_get", "cache_set", "response"}

\* The requests during which a step raises: the ones of a client without identity.
RLFaultRequests == {r \in RLRequests : r.user = 0 /\ r.bearer = 0}

\* A handler that lets the exception escape: the framework answers 500.
OnExceptionEscapes(step) ==
    [RLNone EXCEPT !.outcome = "error", !.status = 500]

\* except Exception: logger.error(...); return None
OnException(step) ==
    [RLNone EXCEPT !.outcome = "error", !.status = 0]

\* process_request when the step raises.  cache.set is reached by a request within
\* its limit only, the 429 response by a request over it; a call that raises has
\* written nothing.
RLProcessRequestFault(req, step) ==
    LET category == GetRateLimitCategory(req.path)
        res == CheckRateLimit(cache, now, GetClientIdentifier(req), category,
                              rate_limits[category])
    IN
    /\ ~ShouldSkipRateLimiting(req.path)
    /\ step = "cache_set" => res.is_allowed
    /\ step = "response" => ~res.is_allowed
    /\ rl_last' = OnException(step)
    /\ UNCHANGED <<cache, now, rate_limits, seen, cvVars, svcVars>>

\* One second passes.
RLTick ==
    /\ now < MaxTime
    /\ now' = now + 1
    /\ cache' = Unexpired(cache, now')
    /\ seen' = SeenAfter(seen, now, now')
    /\ UNCHANGED <<rate_limits, rl_last, cvVars, svcVars>>

NextRL ==
    \/ \E req \in RLRequests : RLSkip(req)
    \/ \E req \in RLRequests, delay \in {0, 1} : RLProcessRequest(req, delay)
    \/ \E req \in RLFaultRequests, step \in RLFaultSteps : RLProcessRequestFault(req, step)
    \/ RLTick

SpecRL == InitRLimiter /\ [][NextRL]_vars

(***************************************************************************)
(* SpecCat: _get_rate_limit_category and the lookup of its rate limit,     *)
(* applied to the path of a request.                                       *)
(***************************************************************************)
MaxSegments == 6

Segments == {"api", "pdf", "cv", "generate-pdf", "generate-pdf-from-html", "generate-preview"}

\* The paths /s1/.../sn/ of at most MaxSegments segments.
BoundedPaths == UNION {[1..n -> Segments] : n \in 0..MaxSegments}

\* ENHANCED_RATE_LIMITS as settings.py defines it.
EnhancedRateLimits ==
    [c \in Categories \cup {"admin_api"} |->
        CASE c = "default" -> [requests |-> 100, window |-> 3600]
          [] c = "pdf_generation" -> [requests |-> 10, window |-> 900]
          [] c = "preview_generation" -> [requests |-> 100, window |-> 300]
          [] c = "api_general" -> [requests |-> 1000, window |-> 3600]
          [] c = "admin_api" -> [requests |-> 500, window |-> 3600]]

\* self.rate_limits.get(limit_category, self.rate_limits['default'])
RateLimitOf(table, limit_category) ==
    IF limit_category \in DOMAIN table THEN table[limit_category] ELSE table["default"]

\* A request for any of the paths arrives.
InitCategorize ==
    /\ InitCV /\ InitWorkers /\ InitRL /\ InitPdf /\ InitPool /\ InitLog
    /\ InitAuth /\ InitHealth /\ InitExt
    /\ categorized \in {[NotCategorized EXCEPT !.path = path] : path \in BoundedPaths}

\* process_request, lines 46-51, for the path of the request.
Categorize ==
    /\ categorized.limit_category = "none"
    /\ categorized' =
          [categorized EXCEPT
              !.limit_category = GetRateLimitCategory(categorized.path),
              !.rate_limit = RateLimitOf(EnhancedRateLimits,
                                         GetRateLimitCategory(categorized.path))]
    /\ UNCHANGED <<cvVars, rlVars, pdfVars, batchVars, logVars, authVars, healthVars, extVars>>

NextCat == Categorize

SpecCat == InitCategorize /\ [][NextCat]_vars

(***************************************************************************)
(* SpecPdf: EnhancedCVPDFService.generate_pdf_with_cache over the cache    *)
(* backend.  A JSON object of a call is the sequence of its (key, value)   *)
(* pairs in insertion order; two objects are equal when they hold the same *)
(* pairs.                                                                  *)
(***************************************************************************)
MaxRenders == 3

\* self.cache_timeout, in seconds
CacheTimeout == 2

\* The keys of the objects, in the order sort_keys puts them.
SortedKeys == <<"skills", "summary">>

PdfObjects ==
    {<< <<"summary", "a">>, <<"skills", "b">> >>,
     << <<"skills", "b">>, <<"summary", "a">> >>,
     << <<"summary", "a">> >>}

PdfRequests ==
    [cv_data : PdfObjects, visibility : {<< <<"summary", "a">> >>},
     template_name : {"classic-0", "modern-0"}]

Pairs(object) == {object[i] : i \in DOMAIN object}

Rank(key) == CHOOSE i \in DOMAIN SortedKeys : SortedKeys[i] = key

\* json.dumps(object): the pairs as inserted.
InsertionOrder(object) == object

\* json.dumps(object, sort_keys=True): the pairs in the order of their keys.
SortKeys(object) ==
    CHOOSE sorted \in [DOMAIN object -> Pairs(object)] :
        /\ Pairs(sorted) = Pairs(object)
        /\ \A i, j \in DOMAIN sorted : i < j => Rank(sorted[i][1]) < Rank(sorted[j][1])

\* The key from json.dumps without sort_keys=True.
GenerateCacheKeyUnsorted(cv_data, visibility, template_name) ==
    <<"pdf_cache", InsertionOrder(cv_data), InsertionOrder(visibility), template_name>>

\* _generate_cache_key: the serialization that is hashed.  SHA-256 and hexdigest are
\* taken as injective, so the key is the serialized text itself.
GenerateCacheKey(cv_data, visibility, template_name) ==
    <<"pdf_cache", SortKeys(cv_data), SortKeys(visibility), template_name>>

\* What the caller passed, up to the order of keys.
PdfContent(request) ==
    [cv_data |-> Pairs(request.cv_data), visibility |-> Pairs(request.visibility),
     template_name |-> request.template_name]

\* The bytes of the n-th run of the PDF engine: the context holds generation_timestamp,
\* no two runs need produce the same bytes.
PdfBytes(request, n) == [content |-> PdfContent(request), render |-> n]

\* generate_pdf_with_cache(**request).  ok: _generate_pdf_sync returns (it raises
\* otherwise); delay: the seconds the generation takes.
GeneratePdfWithCache(request, ok, delay) ==
    LET cache_key ==
            GenerateCacheKey(request.cv_data, request.visibility, request.template_name)
        cached_pdf == CacheGet(cache, cache_key, NoBytes, now)
        pdf_data == PdfBytes(request, render_count + 1)
        result == [NoPdfResult EXCEPT !.request = request, !.cache_key = cache_key]
    IN
    IF cached_pdf # NoBytes
    THEN /\ ok /\ delay = 0
         /\ pdf_result' = [result EXCEPT !.pdf_data = cached_pdf, !.was_cached = TRUE,
                                         !.outcome = "returned"]
         /\ UNCHANGED <<cache, now, render_count, generated>>
         /\ UNCHANGED <<rate_limits, seen, rl_last, cvVars, catVars, batchVars, logVars, authVars, healthVars, extVars>>
    ELSE /\ render_count < MaxRenders
         /\ now + delay <= MaxTime
         /\ render_count' = render_count + 1
         /\ now' = now + delay
         /\ IF ok
            THEN /\ cache' = CacheSet(Unexpired(cache, now'), cache_key, pdf_data,
                                      CacheTimeout, now')
                 /\ pdf_result' = [result EXCEPT !.pdf_data = pdf_data,
                                                 !.outcome = "returned"]
                 /\ generated' =
                        {g \in generated : g.content # PdfContent(request)}
                            \cup {[content |-> PdfContent(request),
                                   pdf_data |-> pdf_data, at |-> now']}
            ELSE /\ cache' = Unexpired(cache, now')
                 /\ pdf_result' = [result EXCEPT !.outcome = "raised"]
                 /\ UNCHANGED generated
         /\ UNCHANGED <<rate_limits, seen, rl_last, cvVars, catVars, batchVars, logVars, authVars, healthVars, extVars>>

NextPdf ==
    \/ \E request \in PdfRequests, ok \in BOOLEAN, delay \in {0, 1} :
            GeneratePdfWithCache(request, ok, delay)
    \/ RLTick

SpecPdf == Init /\ [][NextPdf]_vars

(***************************************************************************)
(* SpecBatch: EnhancedCVPDFService.generate_pdf_batch over the worker pool *)
(* (PDFGenerationPool, a ThreadPoolExecutor of pool_size threads).  The    *)
(* bytes of the i-th request are the number i, None is 0.                  *)
(***************************************************************************)
MaxBatch == 3

\* PDF_GENERATION_POOL_SIZE
PoolSize == 2

\* What _generate_pdf_sync does for a request: it returns the bytes, it raises, or it
\* never completes.
Fates == {"returns", "raises", "hangs"}

Batches == UNION {[1..n -> Fates] : n \in 0..MaxBatch}

None == 0

Running == {i \in DOMAIN futures : futures[i].state = "running"}

\* generate_pdf_batch(requests), lines 129-141: one submit_generation per request.
BatchSubmit(requests) ==
    /\ batch_pc = "idle"
    /\ futures' = [i \in DOMAIN requests |->
                      [state |-> "queued", fate |-> requests[i], yielded |-> FALSE]]
    /\ active_generations' = active_generations + Len(requests)
    /\ generation_count' = generation_count + Len(requests)
    /\ batch_pc' = "waiting"
    /\ UNCHANGED <<results, cvVars, rlVars, catVars, pdfVars, logVars, authVars, healthVars, extVars>>

\* A free thread of the executor takes the future queued first.
TaskStart(i) ==
    /\ i \in DOMAIN futures
    /\ futures[i].state = "queued"
    /\ \A j \in 1..(i - 1) : futures[j].state # "queued"
    /\ Cardinality(Running) < PoolSize
    /\ futures' = [futures EXCEPT ![i].state = "running"]
    /\ UNCHANGED <<results, batch_pc, active_generations, generation_count>>
    /\ UNCHANGED <<cvVars, rlVars, catVars, pdfVars, logVars, authVars, healthVars, extVars>>

\* _wrapped_generation ends: the function returned or raised, `finally` decrements.
TaskFinish(i) ==
    /\ i \in DOMAIN futures
    /\ futures[i].state = "running"
    /\ futures[i].fate # "hangs"
    /\ futures' = [futures EXCEPT ![i].state = "finished"]
    /\ active_generations' = active_generations - 1
    /\ UNCHANGED <<results, batch_pc, generation_count>>
    /\ UNCHANGED <<cvVars, rlVars, catVars, pdfVars, logVars, authVars, healthVars, extVars>>

\* The except branch dropped: a future that raised leaves no slot.
SlotOfSkippingFailed(list, i, fate) ==
    IF fate = "raises" THEN list ELSE Append(list, i)

\* Lines 146-151: future.result(timeout=60) of a finished future, appended or, when
\* it raises, None appended.
SlotOf(list, i, fate) ==
    IF fate = "raises" THEN Append(list, None) ELSE Append(list, i)

\* as_completed(futures) yields a finished future it has not yielded yet; it has no
\* timeout of its own and waits for as long as a future is unfinished.
BatchCollect(i) ==
    /\ batch_pc = "waiting"
    /\ i \in DOMAIN futures
    /\ futures[i].state = "finished"
    /\ ~futures[i].yielded
    /\ futures' = [futures EXCEPT ![i].yielded = TRUE]
    /\ results' = SlotOf(results, i, futures[i].fate)
    /\ UNCHANGED <<batch_pc, active_generations, generation_count>>
    /\ UNCHANGED <<cvVars, rlVars, catVars, pdfVars, logVars, authVars, healthVars, extVars>>

\* as_completed is exhausted: return results
BatchReturn ==
    /\ batch_pc = "waiting"
    /\ \A i \in DOMAIN futures : futures[i].yielded
    /\ batch_pc' = "returned"
    /\ UNCHANGED <<futures, results, active_generations, generation_count>>
    /\ UNCHANGED <<cvVars, rlVars, catVars, pdfVars, logVars, authVars, healthVars, extVars>>

NextBatch ==
    \/ \E requests \in Batches : BatchSubmit(requests)
    \/ \E i \in 1..MaxBatch : TaskStart(i)
    \/ \E i \in 1..MaxBatch : TaskFinish(i)
    \/ \E i \in 1..MaxBatch : BatchCollect(i)
    \/ BatchReturn
    \/ RLTick

\* The threads of the pool and the caller's thread all get to run.
SpecBatch ==
    /\ Init
    /\ [][NextBatch]_vars
    /\ WF_vars(\E i \in 1..MaxBatch : TaskStart(i))
    /\ WF_vars(\E i \in 1..MaxBatch : TaskFinish(i))
    /\ WF_vars(\E i \in 1..MaxBatch : BatchCollect(i))
    /\ WF_vars(BatchReturn)
    /\ WF_vars(RLTick)

(***************************************************************************)
(* SpecCleanup: the management command cleanup_generations over the table  *)
(* pdf_generations.  Time is counted in days.  PDFGenerationLog has the    *)
(* columns id, user_id, template_name and created_at, and no other.        *)
(***************************************************************************)
MaxEntries == 2

MaxDays == 2

\* batch_size
BatchSize == 1

LogEntries == [id : 1..MaxEntries, created_at : 0..MaxTime]

\* The tables as they can be at time t: ids are unique, no row is from the future.
LogTables(t) ==
    {table \in SUBSET LogEntries :
        /\ \A e \in table : e.created_at <= t
        /\ \A e, f \in table : e.id = f.id => e = f}

CleanupOptions ==
    [days : 0..MaxDays, keep_failed : BOOLEAN, dry_run : BOOLEAN, stats : BOOLEAN]

\* The fields PDFGenerationLog defines.
LogFields == {"id", "user_id", "template_name", "created_at"}

\* A query that names the field raises FieldError unless the model has it.
FieldError(field) == field \notin LogFields

\* PDFGenerationLog.objects.filter(created_at__lt=cutoff_date)
CreatedBefore(table, cutoff_date) == {e \in table : e.created_at < cutoff_date}

\* Lines 96-104: delete the rows of the query, batch_size ids at a time, until the
\* query is empty.
RECURSIVE DeleteInBatches(_, _)
DeleteInBatches(table, cutoff_date) ==
    LET logs_query == CreatedBefore(table, cutoff_date)
        batch_ids ==
            CHOOSE ids \in SUBSET {e.id : e \in logs_query} :
                Cardinality(ids) = IF Cardinality(logs_query) < BatchSize
                                   THEN Cardinality(logs_query) ELSE BatchSize
    IN IF batch_ids = {} THEN table
       ELSE DeleteInBatches({e \in table : e.id \notin batch_ids}, cutoff_date)

\* handle without the dry_run branch.
HandleWithoutDryRun(table, t, options, confirm) ==
    LET cutoff_date == t - options.days IN
    IF confirm # "y" THEN [table |-> table, outcome |-> "cancelled"]
    ELSE [table |-> DeleteInBatches(table, cutoff_date), outcome |-> "deleted"]

\* Command.handle at time t with the answer confirm to its prompt: the table after
\* the run and how the run ended.
Handle(table, t, options, confirm) ==
    LET cutoff_date == t - options.days
        logs_query == CreatedBefore(table, cutoff_date)
    IN
    IF options.stats /\ FieldError("status")
    THEN [table |-> table, outcome |-> "FieldError"]
    ELSE IF options.keep_failed /\ FieldError("status")
    THEN [table |-> table, outcome |-> "FieldError"]
    ELSE IF Cardinality(logs_query) = 0
    THEN [table |-> table, outcome |-> "nothing"]
    ELSE IF options.dry_run
    THEN [table |-> table,
          outcome |-> IF FieldError("status") THEN "FieldError" ELSE "dry_run"]
    ELSE IF confirm # "y"
    THEN [table |-> table, outcome |-> "cancelled"]
    ELSE [table |-> DeleteInBatches(table, cutoff_date), outcome |-> "deleted"]

\* The table and the day at which the command runs first.
InitCleanup ==
    /\ InitCV /\ InitWorkers /\ InitCat /\ InitPdf /\ InitPool
    /\ InitAuth /\ InitHealth /\ InitExt
    /\ cache = {} /\ rate_limits = <<>> /\ seen = <<>> /\ rl_last = <<>>
    /\ now \in 0..MaxTime
    /\ gen_log \in LogTables(now)
    /\ cleanup = NoCleanup

\* manage.py cleanup_generations with the options, answered confirm at the prompt.
CleanupGenerations(options, confirm) ==
    LET done == Handle(gen_log, now, options, confirm) IN
    /\ gen_log' = done.table
    /\ cleanup' = [days |-> options.days, keep_failed |-> options.keep_failed,
                   dry_run |-> options.dry_run, stats |-> options.stats,
                   confirm |-> confirm, outcome |-> done.outcome]
    /\ UNCHANGED <<cvVars, rlVars, catVars, pdfVars, batchVars, authVars, healthVars, extVars>>

NextCleanup ==
    \/ \E options \in CleanupOptions, confirm \in {"y", "n"} :
            CleanupGenerations(options, confirm)
    \/ RLTick

SpecCleanup == InitCleanup /\ [][NextCleanup]_vars

(***************************************************************************)
(* Part 7: bearer authentication                                           *)
(*         (apps/authentication/backends.py).  SpecAuth.                   *)
(*                                                                         *)
(* A header value is a string over three symbols: the word Bearer, one     *)
(* space, and x, a character that is neither a space nor part of Bearer.   *)
(***************************************************************************)
MaxHeader == 3

keyword == <<"Bearer">>

HeaderSymbols == {"Bearer", " ", "x"}

Strings == UNION {[1..n -> HeaderSymbols] : n \in 0..MaxHeader}

\* request.META.get('HTTP_AUTHORIZATION'): None, or the value of the header.
AuthHeaders == {NoHeader} \cup {[present |-> TRUE, value |-> s] : s \in Strings}

AuthVariants == {"required", "optional"}

SupabaseIds == {"u1", "u2"}

Emails == {"e1", "e2"}

Usernames == SupabaseIds \cup {"admin"}

SupabaseUsers == [id : SupabaseIds, email : Emails]

\* What self.client.auth.get_user(token) does: it raises, it answers without
\* a user, or it answers with a user.
GetUserResponses ==
    {[kind |-> k, user |-> NoSupabaseUser] : k \in {"raises", "no_user"}}
        \cup {[kind |-> "user", user |-> u] : u \in SupabaseUsers}

\* str.split(' ')
RECURSIVE Split(_)
Split(s) ==
    IF \A i \in 1..Len(s) : s[i] # " "
    THEN <<s>>
    ELSE LET i == CHOOSE j \in 1..Len(s) :
                      s[j] = " " /\ \A k \in 1..(j - 1) : s[k] # " "
         IN <<SubSeq(s, 1, i - 1)>> \o Split(SubSeq(s, i + 1, Len(s)))

\* extract_token without the comparison of parts[0] with the keyword.
ExtractTokenAnyKeyword(auth_header) ==
    IF ~auth_header.present \/ auth_header.value = <<>>
    THEN <<>>
    ELSE LET parts == Split(auth_header.value) IN
         IF Len(parts) # 2 THEN <<>> ELSE parts[2]

\* SupabaseAuthentication.extract_token; <<>> stands for None and for ''.
ExtractToken(auth_header) ==
    IF ~auth_header.present \/ auth_header.value = <<>>
    THEN <<>>
    ELSE LET parts == Split(auth_header.value) IN
         IF Len(parts) # 2 \/ parts[1] # keyword THEN <<>> ELSE parts[2]

\* SupabaseService.verify_token
VerifyToken(response) ==
    IF response.kind = "user"
    THEN [raised |-> "none", user_data |-> response.user]
    ELSE [raised |-> "AuthenticationFailed", user_data |-> NoSupabaseUser]

\* SupabaseService.get_or_create_django_user; db_ok = FALSE is a database
\* error inside it.
GetOrCreateDjangoUser(users, supabase_user, db_ok) ==
    LET by_username == {u \in users : u.username = supabase_user.id}
        by_email == {u \in users : u.email = supabase_user.email}
        failed == [raised |-> "AuthenticationFailed", user |-> NoDjangoUser,
                   users |-> users]
    IN
    IF ~db_ok
    THEN failed
    ELSE IF by_username # {}
    THEN [raised |-> "none", user |-> CHOOSE u \in by_username : TRUE, users |-> users]
    ELSE IF Cardinality(by_email) > 1
    THEN failed
    ELSE IF by_email # {}
    THEN LET found == CHOOSE u \in by_email : TRUE
             user == [found EXCEPT !.username = supabase_user.id]
         IN [raised |-> "none", user |-> user,
             users |-> (users \ {found}) \cup {user}]
    ELSE LET user == [username |-> supabase_user.id, email |-> supabase_user.email]
         IN [raised |-> "none", user |-> user, users |-> users \cup {user}]

AuthResult(outcome, user, token, supabase_user, verifier_called, users) ==
    [outcome |-> outcome, user |-> user, token |-> token,
     supabase_user |-> supabase_user, verifier_called |-> verifier_called,
     users |-> users]

\* The except clauses of authenticate: AuthenticationFailed is raised again,
\* every other exception is replaced by AuthenticationFailed.
OnRaise(raised) ==
    IF raised = "AuthenticationFailed"
    THEN "AuthenticationFailed"
    ELSE "AuthenticationFailed"

\* SupabaseAuthentication.authenticate
Authenticate(users, auth_header, response, db_ok) ==
    LET none == AuthResult("none", NoDjangoUser, <<>>, NoSupabaseUser, FALSE, users)
        token == ExtractToken(auth_header)
        verified == VerifyToken(response)
        resolved == GetOrCreateDjangoUser(users, verified.user_data, db_ok)
    IN
    IF ~auth_header.present \/ auth_header.value = <<>>
    THEN none
    ELSE IF token = <<>>
    THEN none
    ELSE IF verified.raised # "none"
    THEN AuthResult(OnRaise(verified.raised), NoDjangoUser, <<>>, NoSupabaseUser,
                    TRUE, users)
    ELSE IF resolved.raised # "none"
    THEN AuthResult(OnRaise(resolved.raised), NoDjangoUser, <<>>, NoSupabaseUser,
                    TRUE, users)
    ELSE AuthResult("identity", resolved.user, token, verified.user_data, TRUE,
                    resolved.users)

\* OptionalSupabaseAuthentication.authenticate
AuthenticateOptional(users, auth_header, response, db_ok) ==
    LET result == Authenticate(users, auth_header, response, db_ok) IN
    IF result.outcome = "AuthenticationFailed"
    THEN [result EXCEPT !.outcome = "none"]
    ELSE result

\* The tables of users the service may start with: usernames are unique.
UserTables ==
    {t \in SUBSET [username : Usernames, email : Emails] :
        \A u, v \in t : u.username = v.username => u = v}

InitAuthentication ==
    /\ InitCV /\ InitWorkers /\ InitRL /\ InitCat /\ InitPdf /\ InitPool /\ InitLog
    /\ InitHealth /\ InitExt
    /\ auth_users \in UserTables
    /\ auth_request = NoAuthRequest
    /\ auth_result = NoAuthResult

\* A request with the header reaches a view that authenticates with the variant.
AuthReceive(auth_header, variant) ==
    /\ auth_result.outcome # "pending"
    /\ auth_request' = [header |-> auth_header, variant |-> variant]
    /\ auth_result' = [NoAuthResult EXCEPT !.outcome = "pending"]
    /\ UNCHANGED <<auth_users, cvVars, rlVars, catVars, pdfVars, batchVars, logVars, healthVars, extVars>>

\* The authentication class of the view handles the request.
AuthPerform(response, db_ok) ==
    /\ auth_result.outcome = "pending"
    /\ LET result == IF auth_request.variant = "optional"
                     THEN AuthenticateOptional(auth_users, auth_request.header,
                                               response, db_ok)
                     ELSE Authenticate(auth_users, auth_request.header,
                                       response, db_ok)
           used == IF result.verifier_called
                   THEN response ELSE [kind |-> "none", user |-> NoSupabaseUser]
       IN
       /\ auth_users' = result.users
       /\ auth_result' =
            [outcome |-> result.outcome, user |-> result.user, token |-> result.token,
             supabase_user |-> result.supabase_user,
             verifier_called |-> result.verifier_called,
             response |-> used,
             db_ok |-> (db_ok \/ used.kind # "user"),
             users_before |-> auth_users]
    /\ UNCHANGED <<auth_request, cvVars, rlVars, catVars, pdfVars, batchVars, logVars, healthVars, extVars>>

NextAuth ==
    \/ \E auth_header \in AuthHeaders, variant \in AuthVariants :
            AuthReceive(auth_header, variant)
    \/ \E response \in GetUserResponses, db_ok \in BOOLEAN : AuthPerform(response, db_ok)

SpecAuth == InitAuthentication /\ [][NextAuth]_vars

(***************************************************************************)
(* Part 8: the system health endpoint                                      *)
(*         (apps/core/views.py, SystemHealthView).  SpecHealth.            *)
(***************************************************************************)
\* The names core/views.py binds at module level that get refers to; the
\* import of get_pdf_pool is commented out (line 22) and PDFGenerationLog is
\* not imported.
ModuleNames ==
    {"status", "Response", "timezone", "connection", "User", "cache", "sys",
     "django", "CVProfile", "logger"}

NameError(name) == name \notin ModuleNames

\* cursor.execute("SELECT 1") returns or raises.
DatabaseProbes == {"ok", "raises"}

\* The cache round trip: one of set, get, delete raises, or get returns the
\* value stored (hit) or something else (miss).
CacheProbes == {"hit", "miss", "set_raises", "get_raises", "delete_raises"}

\* `from weasyprint import HTML` succeeds, raises ImportError, or raises
\* another exception.
EngineProbes == {"ok", "ImportError", "raises"}

\* User.objects.count() and CVProfile.objects.count() return or raise.
CountProbes == {"ok", "raises"}

HealthProbes ==
    [database : DatabaseProbes, cache : CacheProbes, engine : EngineProbes,
     counts : CountProbes]

\* lines 48-61
DatabaseStatus(probe) == IF probe = "ok" THEN "connected" ELSE "error"

\* lines 63-78: only an exception degrades; a value other than 'test' is
\* reported as error in the cache section alone.
CacheStatus(probe) == IF probe = "hit" THEN "working" ELSE "error"

CacheDegrades(probe) == probe \in {"set_raises", "get_raises", "delete_raises"}

\* lines 80-100
PdfServiceStatus(probe) ==
    IF probe = "ImportError" THEN "unavailable"
    ELSE IF probe = "raises" THEN "error"
    ELSE IF NameError("get_pdf_pool") THEN "error"
    ELSE "available"

\* lines 102-113: whether health_data['statistics'] is set.
Statistics(probe) ==
    /\ probe = "ok"
    /\ ~NameError("User")
    /\ ~NameError("CVProfile")
    /\ ~NameError("PDFGenerationLog")

\* lines 115-120
StatusCode(status) ==
    IF status = "degraded" THEN 206
    ELSE IF status = "unhealthy" THEN 503
    ELSE 200

\* The cache after lines 64-68.
CacheAfterProbe(c, probe, t) ==
    IF probe \in {"get_raises", "delete_raises"}
    THEN CacheSet(c, <<"health_check_test">>, 1, 60, t)
    ELSE {e \in c : e.key # <<"health_check_test">>}

\* SystemHealthView.get
HealthGet(probes, t) ==
    LET database == DatabaseStatus(probes.database)
        cache_status == CacheStatus(probes.cache)
        pdf_service == PdfServiceStatus(probes.engine)
        status == IF \/ database = "error"
                     \/ CacheDegrades(probes.cache)
                     \/ pdf_service # "available"
                  THEN "degraded" ELSE "healthy"
    IN [status |-> status, status_code |-> StatusCode(status), timestamp |-> t,
        database |-> database, cache |-> cache_status, pdf_service |-> pdf_service,
        statistics |-> Statistics(probes.counts), probes |-> probes]

InitHealthEndpoint ==
    /\ InitCV /\ InitWorkers /\ InitCat /\ InitPdf /\ InitPool /\ InitLog /\ InitAuth
    /\ InitExt
    /\ cache = {} /\ rate_limits = <<>> /\ seen = <<>> /\ rl_last = <<>>
    /\ now = 0
    /\ health = NoHealth

\* GET /health/ while the probes behave as given.
SystemHealth(probes) ==
    /\ health' = HealthGet(probes, now)
    /\ cache' = CacheAfterProbe(cache, probes.cache, now)
    /\ UNCHANGED <<now, rate_limits, seen, rl_last, cvVars, catVars, pdfVars,
                   batchVars, logVars, authVars, extVars>>

NextHealth ==
    \/ \E probes \in HealthProbes : SystemHealth(probes)
    \/ RLTick

SpecHealth == InitHealthEndpoint /\ [][NextHealth]_vars

(***************************************************************************)
(* Part 9: the middleware chain and the security headers                   *)
(*         (cvflo/settings.py, MIDDLEWARE;                                 *)
(*          apps/core/middleware/security.py).  SpecMw.                    *)
(***************************************************************************)
MIDDLEWARE ==
    <<"corsheaders.CorsMiddleware", "django.SecurityMiddleware",
      "django.SessionMiddleware", "django.CommonMiddleware",
      "django.CsrfViewMiddleware", "django.AuthenticationMiddleware",
      "django.MessageMiddleware", "django.XFrameOptionsMiddleware",
      "apps.core.SecurityMiddleware", "apps.core.LoggingMiddleware",
      "apps.core.EnhancedRateLimitMiddleware", "apps.core.APIMetricsMiddleware">>

\* The position of a middleware in the chain; the view is below the last one.
LayerOf(name) == CHOOSE k \in 1..Len(MIDDLEWARE) : MIDDLEWARE[k] = name

ViewLayer == Len(MIDDLEWARE) + 1

\* A request: a CORS preflight or not, over https or not, a path that only
\* matches a route with a slash appended or not, over its rate limit or not,
\* and what the view answers.
MwRequests ==
    [preflight : BOOLEAN, secure : BOOLEAN, slash : BOOLEAN, limited : BOOLEAN,
     view_status : {200, 404, 500}, view_x_frame_options : {"absent", "SAMEORIGIN"}]

MwResponse(status, made_by, x_frame_options) ==
    [status |-> status, made_by |-> made_by, x_frame_options |-> x_frame_options,
     strict_transport_security |-> "absent"]

\* process_response of the middleware, as far as it touches the status and
\* the two headers.
ProcessResponse(name, request, response, dbg) ==
    IF name = "apps.core.SecurityMiddleware"
    THEN [response EXCEPT
            !.x_frame_options = "DENY",
            !.strict_transport_security = IF ~dbg THEN "max-age=31536000" ELSE @]
    ELSE IF name = "django.XFrameOptionsMiddleware"
    THEN [response EXCEPT !.x_frame_options = IF @ = "absent" THEN "DENY" ELSE @]
    ELSE IF name = "django.CommonMiddleware"
    THEN IF response.status = 404 /\ ~request.slash
         THEN MwResponse(301, LayerOf(name), "absent")
         ELSE response
    ELSE IF name = "django.SecurityMiddleware"
    THEN [response EXCEPT
            !.strict_transport_security =
                IF ~dbg /\ request.secure /\ @ = "absent" THEN "max-age=31536000" ELSE @]
    ELSE response

\* The response on its way out from layer k to the client.
RECURSIVE Outward(_, _, _, _)
Outward(k, request, response, dbg) ==
    IF k = 0
    THEN response
    ELSE Outward(k - 1, request,
                 ProcessResponse(MIDDLEWARE[k], request, response, dbg), dbg)

\* The layer that answers the request, and its answer.
Answer(request) ==
    IF request.preflight
    THEN MwResponse(200, LayerOf("corsheaders.CorsMiddleware"), "absent")
    ELSE IF request.limited
    THEN MwResponse(429, LayerOf("apps.core.EnhancedRateLimitMiddleware"), "absent")
    ELSE MwResponse(IF request.slash THEN request.view_status ELSE 404,
                    ViewLayer, request.view_x_frame_options)

\* The request passes the chain inwards up to the layer that answers it, and
\* the answer passes the layers above it outwards.
MwHandle(request, dbg) ==
    LET answer == Answer(request) IN
    Outward(IF answer.made_by = ViewLayer THEN Len(MIDDLEWARE) ELSE answer.made_by,
            request, answer, dbg)

InitMw ==
    /\ InitCV /\ InitWorkers /\ InitRL
    /\ InitCat /\ InitPdf /\ InitPool /\ InitLog /\ InitAuth /\ InitHealth
    /\ InitNotMw
    /\ debug \in BOOLEAN
    /\ mw_last = [request |-> NoMwRequest, response |-> NoMwResponse]

MwServe(request) ==
    /\ mw_last' = [request |-> request, response |-> MwHandle(request, debug)]
    /\ UNCHANGED <<debug, cvVars, rlVars, catVars, pdfVars, batchVars, logVars,
                   authVars, healthVars, notMwVars>>

NextMw == \E request \in MwRequests : MwServe(request)

SpecMw == InitMw /\ [][NextMw]_vars

(***************************************************************************)
(* Part 10: the suggested file name                                        *)
(*          (apps/pdf_generation/services.py, get_suggested_filename).     *)
(*          SpecFn.  A string is the sequence of its characters.           *)
(***************************************************************************)
MaxName == 2

NameChars == {"a", "7", " ", "/", "."}

John == <<"J", "o", "h", "n">>

Doe == <<"D", "o", "e">>

\* The characters of the model for which str.isalnum() is true.
IsAlnum(c) ==
    c \in {"a", "7", "J", "o", "h", "n", "D", "e", "C", "V", "R", "s", "u", "m",
           "p", "d", "f", "N"}

\* The value under first_name or last_name: no such key, None, or a string.
NameValues ==
    {NoName, [kind |-> "None", value |-> <<>>]}
        \cup {[kind |-> "str", value |-> v] :
                v \in {John, Doe} \cup UNION {[1..n -> NameChars] : n \in 0..MaxName}}

\* cv_data: None, a dict without personal_info, one whose personal_info is
\* None, or one whose personal_info is a dict.
CvDataArguments ==
    {[kind |-> k, personal_info |-> "absent", first_name |-> NoName, last_name |-> NoName] :
        k \in {"None", "dict"}}
    \cup {[kind |-> "dict", personal_info |-> "None", first_name |-> NoName,
           last_name |-> NoName]}
    \cup [kind : {"dict"}, personal_info : {"dict"}, first_name : NameValues,
          last_name : NameValues]

\* dict.get(key, default) followed by the f-string's str().
FormatName(v, default) ==
    IF v.kind = "absent" THEN default
    ELSE IF v.kind = "None" THEN <<"N", "o", "n", "e">>
    ELSE v.value

\* "".join(c for c in filename if c.isalnum() or c in "._-")
RECURSIVE Clean(_)
Clean(filename) ==
    IF filename = <<>>
    THEN <<>>
    ELSE LET c == Head(filename) IN
         (IF IsAlnum(c) \/ c \in {".", "_", "-"} THEN <<c>> ELSE <<>>)
            \o Clean(Tail(filename))

CV_Resume_pdf == <<"C", "V", "_", "R", "e", "s", "u", "m", "e", ".", "p", "d", "f">>

\* CVPDFService.get_suggested_filename
GetSuggestedFilename(cv_data) ==
    IF cv_data.kind = "None" \/ cv_data.personal_info = "None"
    THEN CV_Resume_pdf
    ELSE LET first_name == FormatName(cv_data.first_name, <<"C", "V">>)
             last_name == FormatName(cv_data.last_name,
                                     <<"R", "e", "s", "u", "m", "e">>)
         IN Clean(first_name \o <<"_">> \o last_name
                    \o <<"_", "R", "e", "s", "u", "m", "e", ".", "p", "d", "f">>)

InitFn ==
    /\ InitCV /\ InitWorkers /\ InitRL
    /\ InitCat /\ InitPdf /\ InitPool /\ InitLog /\ InitAuth /\ InitHealth
    /\ InitNotFn
    /\ \E cv_data \in CvDataArguments :
            suggested = [cv_data |-> cv_data, called |-> FALSE, filename |-> <<>>]

SuggestFilename ==
    /\ ~suggested.called
    /\ suggested' = [suggested EXCEPT !.called = TRUE,
                                      !.filename = GetSuggestedFilename(suggested.cv_data)]
    /\ UNCHANGED <<cvVars, rlVars, catVars, pdfVars, batchVars, logVars,
                   authVars, healthVars, notFnVars>>

NextFn == SuggestFilename

SpecFn == InitFn /\ [][NextFn]_vars

(***************************************************************************)
(* Part 11: the counters of the generation pool                            *)
(*          (apps/pdf_generation/enhanced_services.py, PDFGenerationPool). *)
(*          SpecPool.  A call of submit_generation is, in turn:            *)
(*          submitting (counted, not yet handed to the executor), then     *)
(*          pending (handed over, not finished) and at last returned or    *)
(*          failed; or refused, when the executor did not take it.         *)
(***************************************************************************)
MaxCalls == 4

CallsMade ==
    pool_calls.submitting + pool_calls.pending + pool_calls.returned
        + pool_calls.failed + pool_calls.refused

InitGenerationPool ==
    /\ InitCV /\ InitWorkers /\ InitRL
    /\ InitCat /\ InitPdf /\ InitPool /\ InitLog /\ InitAuth /\ InitHealth
    /\ InitNotPool
    /\ IdlePool

\* submit_generation, lines 48-50: both counters go up under the lock.
SubmitCount ==
    /\ CallsMade < MaxCalls
    /\ active_generations' = active_generations + 1
    /\ generation_count' = generation_count + 1
    /\ pool_calls' = [pool_calls EXCEPT !.submitting = @ + 1]
    /\ UNCHANGED <<pool_shutdown, futures, results, batch_pc, cvVars, rlVars, catVars,
                   pdfVars, logVars, authVars, healthVars, notPoolVars>>

\* submit_generation, line 52: executor.submit takes the task, or raises
\* RuntimeError when the executor was shut down.
SubmitToExecutor ==
    /\ pool_calls.submitting > 0
    /\ pool_calls' =
         IF pool_shutdown
         THEN [pool_calls EXCEPT !.submitting = @ - 1, !.refused = @ + 1]
         ELSE [pool_calls EXCEPT !.submitting = @ - 1, !.pending = @ + 1]
    /\ UNCHANGED <<pool_shutdown, batchVars, cvVars, rlVars, catVars,
                   pdfVars, logVars, authVars, healthVars, notPoolVars>>

\* _wrapped_generation: the function returns or raises, and the finally
\* clause lowers active_generations under the lock.
WrappedGeneration(ok) ==
    /\ pool_calls.pending > 0
    /\ active_generations' = active_generations - 1
    /\ pool_calls' =
         IF ok
         THEN [pool_calls EXCEPT !.pending = @ - 1, !.returned = @ + 1]
         ELSE [pool_calls EXCEPT !.pending = @ - 1, !.failed = @ + 1]
    /\ UNCHANGED <<pool_shutdown, generation_count, futures, results, batch_pc, cvVars,
                   rlVars, catVars, pdfVars, logVars, authVars, healthVars, notPoolVars>>

\* shutdown: from now on the executor refuses tasks.
PoolShutdown ==
    /\ ~pool_shutdown
    /\ pool_shutdown' = TRUE
    /\ UNCHANGED <<pool_calls, batchVars, cvVars, rlVars, catVars,
                   pdfVars, logVars, authVars, healthVars, notPoolVars>>

NextPool ==
    \/ SubmitCount
    \/ SubmitToExecutor
    \/ \E ok \in BOOLEAN : WrappedGeneration(ok)
    \/ PoolShutdown

SpecPool == InitGenerationPool /\ [][NextPool]_vars

(***************************************************************************)
(* Part 12: the global generation pool                                     *)
(*          (apps/pdf_generation/enhanced_services.py, get_pdf_pool).      *)
(*          SpecSingleton: request workers are threads of one process and  *)
(*          interleave at the statements of get_pdf_pool.                  *)
(***************************************************************************)
MaxGetters == 3

Getters == 1..MaxGetters

InitSingleton ==
    /\ InitCV /\ InitWorkers /\ InitRL
    /\ InitCat /\ InitPdf /\ InitPool /\ InitLog /\ InitAuth /\ InitHealth
    /\ InitNotSingle
    /\ pdf_pool = 0
    /\ pools_created = 0
    /\ getters = [w \in Getters |-> [pc |-> "call", got |-> 0]]

GetterStep(w, pc) ==
    /\ getters[w].pc = pc
    /\ UNCHANGED <<cvVars, rlVars, catVars, pdfVars, batchVars, logVars,
                   authVars, healthVars, notSingleVars>>

\* line 83: if _pdf_pool is None
GetPdfPoolTest(w) ==
    /\ GetterStep(w, "call")
    /\ getters' = [getters EXCEPT ![w].pc = IF pdf_pool = 0 THEN "create" ELSE "return"]
    /\ UNCHANGED <<pdf_pool, pools_created>>

\* lines 84-85: _pdf_pool = PDFGenerationPool(pool_size)
GetPdfPoolCreate(w) ==
    /\ GetterStep(w, "create")
    /\ pools_created' = pools_created + 1
    /\ pdf_pool' = pools_created + 1
    /\ getters' = [getters EXCEPT ![w].pc = "return"]

\* line 86: return _pdf_pool
GetPdfPoolReturn(w) ==
    /\ GetterStep(w, "return")
    /\ getters' = [getters EXCEPT ![w] = [pc |-> "done", got |-> pdf_pool]]
    /\ UNCHANGED <<pdf_pool, pools_created>>

NextSingleton ==
    \E w \in Getters :
        \/ GetPdfPoolTest(w)
        \/ GetPdfPoolCreate(w)
        \/ GetPdfPoolReturn(w)

SpecSingleton == InitSingleton /\ [][NextSingleton]_vars

(***************************************************************************)
(* Part 13: the rate limiter under concurrent requests                     *)
(*          (apps/core/middleware/rate_limiting.py, _check_rate_limit).    *)
(*          SpecRLConc: the threads serve one request each, all of one     *)
(*          client and of category pdf_generation, and interleave between  *)
(*          cache.get and cache.set.                                       *)
(***************************************************************************)
RLThreads == {"t1", "t2", "t3"}

ConcClient == [kind |-> "user", user |-> 1, ip |-> ""]

ConcCategory == "pdf_generation"

ConcKey(current_window) == <<ConcCategory, ConcClient, current_window>>

\* `current_count > limit` in place of `>=`.
RLAdmitsAtLimit(current_count, limit) == ~(current_count > limit)

\* line 158: the request is admitted unless current_count >= limit.
RLAdmits(current_count, limit) == ~(current_count >= limit)

InitRLConc ==
    /\ InitCV /\ InitWorkers
    /\ InitCat /\ InitPdf /\ InitPool /\ InitLog /\ InitAuth /\ InitHealth
    /\ InitNotRlc
    /\ cache = {}
    /\ now = 0
    /\ rate_limits \in RateLimitTables
    /\ seen = <<>>
    /\ rl_last = RLNone
    /\ rl_threads = [w \in RLThreads |->
                        [pc |-> "start", current_window |-> 0, current_count |-> 0]]
    /\ rl_admitted = [k \in 0..MaxTime |-> 0]

\* lines 152-156: the window index, the key, and cache.get(cache_key, 0).
RLConcGet(w) ==
    LET current_window == now \div rate_limits[ConcCategory].window IN
    /\ rl_threads[w].pc = "start"
    /\ rl_threads' = [rl_threads EXCEPT ![w] =
            [pc |-> "got", current_window |-> current_window,
             current_count |-> CacheGet(cache, ConcKey(current_window), 0, now)]]
    /\ UNCHANGED <<rl_admitted, rlVars, cvVars, catVars, pdfVars, batchVars, logVars,
                   authVars, healthVars, notRlcVars>>

\* lines 158-171: reject, or cache.set(cache_key, current_count + 1, window).
RLConcSet(w) ==
    LET me == rl_threads[w]
        rate_limit == rate_limits[ConcCategory]
    IN
    /\ me.pc = "got"
    /\ IF RLAdmits(me.current_count, rate_limit.requests)
       THEN /\ cache' = CacheSet(cache, ConcKey(me.current_window),
                                 me.current_count + 1, rate_limit.window, now)
            /\ rl_admitted' = [rl_admitted EXCEPT ![me.current_window] = @ + 1]
            /\ rl_threads' = [rl_threads EXCEPT ![w].pc = "admitted"]
       ELSE /\ rl_threads' = [rl_threads EXCEPT ![w].pc = "rejected"]
            /\ UNCHANGED <<cache, rl_admitted>>
    /\ UNCHANGED <<now, rate_limits, seen, rl_last, cvVars, catVars, pdfVars, batchVars,
                   logVars, authVars, healthVars, notRlcVars>>

NextRLConc ==
    \/ \E w \in RLThreads : RLConcGet(w)
    \/ \E w \in RLThreads : RLConcSet(w)
    \/ RLTick

SpecRLConc == InitRLConc /\ [][NextRLConc]_vars

(***************************************************************************)
(* Part 14: the rate limiter over several windows                          *)
(*          (apps/core/middleware/rate_limiting.py).  SpecRLWin: the       *)
(*          requests of SpecRL, one at a time, with a record per window.   *)
(***************************************************************************)
InitRLWin ==
    /\ InitCV /\ InitWorkers
    /\ InitCat /\ InitPdf /\ InitPool /\ InitLog /\ InitAuth /\ InitHealth
    /\ InitNotRlw
    /\ cache = {}
    /\ now = 0
    /\ rate_limits \in RateLimitTables
    /\ seen = [p \in Categories \X RLClients |-> 0]
    /\ rl_last = RLNone
    /\ rl_hist = [k \in 0..MaxTime |-> [admitted |-> 0, rejected |-> FALSE]]

\* The requests without an Authorization header.
RLWinRequests == {r \in RLRequests : r.bearer = 0}

\* rl_hist records the requests of one client and category: the signed-in
\* user's requests for PDF generation.
Observed(category, client) == category = "pdf_generation" /\ client.kind = "user"

\* The record when a request is sent in window k: of the earlier windows only
\* the one before k is kept.
Recent(h, k) ==
    [j \in DOMAIN h |->
        IF j + 1 < k THEN [admitted |-> 0, rejected |-> FALSE] ELSE h[j]]

\* process_request for a path rate limiting counts, lines 40-84.
RLWinProcessRequest(req, delay) ==
    LET category == GetRateLimitCategory(req.path)
        rate_limit == rate_limits[category]
        client == GetClientIdentifier(req)
        res == CheckRateLimit(cache, now, client, category, rate_limit)
        nth == seen[<<category, client>>] + 1
        counted == [seen EXCEPT ![<<category, client>>] = nth]
        current_window == now \div rate_limit.window
        ghost(o) == [o EXCEPT !.client = client, !.category = category,
                              !.nth = nth, !.checked_at = now, !.bearer = req.bearer]
    IN
    /\ ~ShouldSkipRateLimiting(req.path)
    /\ nth <= rate_limit.requests + MaxOver
    /\ IF res.is_allowed
       THEN /\ delay = 0
            /\ cache' = res.cache
            /\ now' = now
            /\ seen' = counted
            /\ rl_last' = ghost(RLOutcome("admitted", 0, rate_limit, res, 0))
            /\ rl_hist' = IF Observed(category, client)
                           THEN [Recent(rl_hist, current_window) EXCEPT
                                    ![current_window].admitted = @ + 1]
                           ELSE rl_hist
       ELSE /\ now + delay <= MaxTime
            /\ now' = now + delay
            /\ cache' = Unexpired(res.cache, now')
            /\ seen' = SeenAfter(counted, now, now')
            /\ rl_last' = ghost(RLOutcome("rejected", 429, rate_limit, res,
                                          res.reset_time - now'))
            /\ rl_hist' = IF Observed(category, client)
                           THEN [Recent(rl_hist, current_window) EXCEPT
                                    ![current_window].rejected = TRUE]
                           ELSE rl_hist
    /\ UNCHANGED <<rate_limits, cvVars, catVars, pdfVars, batchVars, logVars,
                   authVars, healthVars, notRlwVars>>

NextRLWin ==
    \/ \E req \in RLWinRequests : RLWinProcessRequest(req, 0)
    \/ RLTick

SpecRLWin == InitRLWin /\ [][NextRLWin]_vars

(***************************************************************************)
(* Part 15: the synchronous generation path and the generation log         *)
(*          (apps/pdf_generation/enhanced_services.py, _generate_pdf_sync, *)
(*           _track_failed_generation; apps/core/middleware/               *)
(*           rate_limiting.py, PDFGenerationTracker; apps/cv_builder/      *)
(*           models.py, PDFGenerationLog).  SpecGen.                       *)
(***************************************************************************)
\* How _generate_pdf_sync is reached, and the user_id it is given (0: None):
\* generate_pdf_with_cache passes none (line 181).
GenRoutes == {"direct", "pool", "cache_miss"}

GenCalls ==
    {c \in [route : GenRoutes, user_id : {0, 1}, template_name : {"classic-0", "modern-1"},
            fate : {"ok", "html_raises", "pdf_raises"}, user_exists : BOOLEAN] :
        /\ c.route = "cache_miss" => c.user_id = 0
        /\ c.user_id = 0 => ~c.user_exists}

\* PDFGenerationLog.objects.create(**kwargs): Model.__init__ raises TypeError
\* for a keyword that is no field of the model; else the row is inserted.
ObjectsCreate(table, kwargs, t) ==
    IF \E k \in kwargs : FieldError(k)
    THEN [raised |-> "TypeError", table |-> table]
    ELSE [raised |-> "none",
          table |-> table \cup {[id |-> Cardinality(table) + 1, created_at |-> t]}]

\* PDFGenerationTracker.track_generation: every exception is logged and dropped.
TrackGeneration(table, t) ==
    LET created == ObjectsCreate(table, {"user_id", "template_name", "file_size",
                                         "generation_time", "client_ip"}, t)
    IN [tracked |-> IF created.raised = "none" THEN "created" ELSE "failed",
        table |-> created.table]

\* _track_failed_generation: every exception is logged and dropped.
TrackFailedGeneration(table, user_exists, t) ==
    LET created == ObjectsCreate(table, {"user", "template_name", "generation_time",
                                         "status", "error_message"}, t)
    IN IF ~user_exists
       THEN [tracked |-> "failed", table |-> table]
       ELSE [tracked |-> IF created.raised = "none" THEN "created" ELSE "failed",
             table |-> created.table]

\* _generate_pdf_sync: what it raises, whether it tracked, and the table after.
GeneratePdfSync(table, call, t) ==
    LET raised == IF call.fate = "ok" THEN "none" ELSE call.fate
        track == IF call.user_id = 0
                 THEN [tracked |-> "skipped", table |-> table]
                 ELSE IF call.fate = "ok"
                 THEN TrackGeneration(table, t)
                 ELSE TrackFailedGeneration(table, call.user_exists, t)
    IN [raised |-> raised, tracked |-> track.tracked, table |-> track.table]

InitGen ==
    /\ InitCV /\ InitWorkers
    /\ InitCat /\ InitPdf /\ InitPool /\ InitLog /\ InitAuth /\ InitHealth
    /\ InitNotGen
    /\ cache = {} /\ rate_limits = <<>> /\ seen = <<>> /\ rl_last = <<>>
    /\ now = 0
    /\ IdleGen

\* One call of the synchronous generation path.
Generate(call) ==
    LET done == GeneratePdfSync(gen_log, call, now) IN
    /\ gen_log' = done.table
    /\ gen_last' = [route |-> call.route, user_id |-> call.user_id,
                    template_name |-> call.template_name, fate |-> call.fate,
                    user_exists |-> call.user_exists, raised |-> done.raised,
                    tracked |-> done.tracked, at |-> now]
    /\ UNCHANGED <<cleanup, cvVars, rlVars, catVars, pdfVars, batchVars,
                   authVars, healthVars, notGenVars>>

NextGen ==
    \/ \E call \in GenCalls : Generate(call)
    \/ RLTick

SpecGen == InitGen /\ [][NextGen]_vars

(***************************************************************************)
(* Claims about the CV data store, requests served one at a time (Spec).   *)
(***************************************************************************)
HasProfile(t, uid) == ObjectsGet(t, uid).outcome = "found"

NoProfile(t, uid) == ObjectsGet(t, uid).outcome = "DoesNotExist"

NoProfileShape == Response(200, NullDoc, "null", "classic-0", "No CV data found")

\* The visibility map and the template name a Create-or-save body saves.
SavedVisibility(body) == IF body.visibility = Absent THEN "{}" ELSE body.visibility

SavedTemplate(body) ==
    IF body.selected_template = Absent THEN "classic-0" ELSE body.selected_template

\* Get answers the document d holds, under every key in ks, what cv_data holds there.
ReturnsKeysOf(g, cv_data, ks) ==
    \A k \in ks :
        (cv_data.kind = "dict" /\ cv_data.d[k] # Absent) => g.cv_data.d[k] = cv_data.d[k]

RoundTrip(ks) ==
    (last.op = "POST" /\ last.status = 200) =>
        LET g == Get(cv_table, last.ident) IN
        /\ g.status = 200
        /\ g.cv_data.kind = "dict"
        /\ ReturnsKeysOf(g, last.saved.cv_data, ks)
        /\ g.visibility = SavedVisibility(last.saved)
        /\ g.cv_data.d["visibility"] = SavedVisibility(last.saved)
        /\ g.selected_template = SavedTemplate(last.saved)

\* C2 as stated: right after a Create-or-save answered 200, Get by the same user
\* returns a document holding every key/value of the saved cv_data (its own
\* visibility key included), the saved visibility map and the saved template name.
C2_RoundTripEveryKey == RoundTrip(Keys)

\* C2 as amended: right after a Create-or-save answered 200, Get by the same user
\* returns a document holding every key/value of the saved cv_data except its
\* top-level key visibility, which holds the saved visibility map, and returns the
\* saved visibility map and template name.
C2_RoundTripExceptVisibilityKey == RoundTrip(Keys \ {"visibility"})

\* User 2, who had a profile holding no summary, saved summary "a" with visibility "b"
\* and template modern-0 and was answered 200; user 1 has a profile too.
C2_Witness ==
    /\ last.op = "POST" /\ last.ident = 2 /\ last.status = 200
    /\ last.saved.cv_data.d["summary"] = "a"
    /\ last.saved.visibility = "b"
    /\ last.saved.selected_template = "modern-0"
    /\ HasProfile(cv_table, 1)
    /\ Get(cv_table, 2).cv_data.d["summary"] = "a"

\* C3: in every reachable state, Get for a user without a profile answers 200 with
\* cv_data null, visibility null, selected_template classic-0 and a message, and a
\* Get step leaves the table as it was.
C3_GetWithoutProfile ==
    [][last'.op = "GET" /\ NoProfile(cv_table, UserId(last'.ident))
          => /\ Get(cv_table, last'.ident) = NoProfileShape
             /\ last'.status = 200
             /\ cv_table' = cv_table]_vars

\* Get by user 2 was answered 200 while user 2 has no profile and user 1 has one.
C3_Witness ==
    /\ last = Served("GET", 2, 200)
    /\ NoProfile(cv_table, 2)
    /\ HasProfile(cv_table, 1)

\* C4: in every reachable state and for every body, Update for a user without a
\* profile answers 404 telling the caller to use POST and leaves the table unchanged.
C4_PutWithoutProfile ==
    \A ident \in Identities, body \in Bodies :
        NoProfile(cv_table, UserId(ident)) =>
            Put(cv_table, ident, body) =
                [table |-> cv_table,
                 resp |-> Plain(404, "CV data not found. Use POST to create new CV data.")]

\* Update by user 2 was answered 404 while user 2 has no profile and user 1 has one.
C4_Witness ==
    /\ last = Served("PUT", 2, 404)
    /\ NoProfile(cv_table, 2)
    /\ HasProfile(cv_table, 1)

\* C5: in every reachable state, Create-or-save with no cv_data field answers 400
\* and leaves the table unchanged, whether or not the user has a profile.
C5_PostWithoutCvData ==
    \A ident \in Identities, body \in Bodies :
        body.cv_data.kind = "absent" =>
            LET out == Post(cv_table, ident, body) IN
            out.resp.status = 400 /\ out.table = cv_table

\* Create-or-save by user 1 was answered 400 while user 1 has a profile.
C5_Witness ==
    /\ last = Served("POST", 1, 400)
    /\ HasProfile(cv_table, 1)

TheProfile(t, uid) == TheRow(ObjectsGet(t, uid))

SuppliesKey(cv_data, k) == cv_data.kind = "dict" /\ cv_data.d[k] # Absent

\* Update on an existing profile: the keys of ks absent from cv_data keep their value,
\* the visibility sub-map changes only when a visibility map is supplied (or, unless
\* asStated, when cv_data supplies a visibility key of its own), the template
\* name changes only when selected_template is supplied, no other row changes.
PutFrame(ks, asStated) ==
    \A ident \in Identities, body \in Bodies :
        LET uid == UserId(ident) IN
        HasProfile(cv_table, uid) =>
            LET old == TheProfile(cv_table, uid)
                out == Put(cv_table, ident, body)
            IN /\ HasProfile(out.table, uid)
               /\ out.table \ {TheProfile(out.table, uid)} = cv_table \ {old}
               /\ LET new == TheProfile(out.table, uid) IN
                  /\ new.id = old.id
                  /\ \A k \in ks : ~SuppliesKey(body.cv_data, k)
                                     => new.cv_content[k] = old.cv_content[k]
                  /\ new.cv_content["visibility"] # old.cv_content["visibility"]
                        => \/ body.visibility # Absent
                           \/ ~asStated /\ SuppliesKey(body.cv_data, "visibility")
                  /\ new.template_name # old.template_name
                        => body.selected_template # Absent

C7_DeleteFrame ==
    \A ident \in Identities :
        LET uid == UserId(ident)
            out == Delete(cv_table, ident)
        IN /\ HasProfile(cv_table, uid) =>
                 /\ out.table = cv_table \ {TheProfile(cv_table, uid)}
                 /\ Get(out.table, ident) = NoProfileShape
           /\ NoProfile(cv_table, uid) =>
                 out = [table |-> cv_table, resp |-> Plain(404, "CV data not found")]

\* Delete by user 1 was answered 200; user 1 has no profile now, user 2 still has one.
C7_Witness ==
    /\ last = Served("DELETE", 1, 200)
    /\ NoProfile(cv_table, 1)
    /\ HasProfile(cv_table, 2)

\* C8: a request without an authenticated identity is served (answered as the handler
\* answers a request it carried out: 200, 400 or 404) and acts on the profile of user
\* id 1 exactly as user 1's request would; an authenticated request changes no row
\* but its own user's.
C8_AnonymousServedAsUserOne ==
    /\ (last.op # "none" /\ last.ident = NoIdentity) => last.status \in {200, 400, 404}
    /\ \A body \in Bodies :
          /\ Get(cv_table, NoIdentity) = Get(cv_table, 1)
          /\ Post(cv_table, NoIdentity, body).table = Post(cv_table, 1, body).table
          /\ Put(cv_table, NoIdentity, body).table = Put(cv_table, 1, body).table
          /\ Delete(cv_table, NoIdentity).table = Delete(cv_table, 1).table
    /\ \A ident \in UserIds, body \in Bodies :
          LET others(t) == {r \in t : r.user_id # ident} IN
          /\ others(Post(cv_table, ident, body).table) = others(cv_table)
          /\ others(Put(cv_table, ident, body).table) = others(cv_table)
          /\ others(Delete(cv_table, ident).table) = others(cv_table)

\* C9: a GET that carries no authentication is answered 401.
C9_UnauthenticatedGetRejected ==
    (last.op = "GET" /\ last.ident = NoIdentity) => last.status = 401

(***************************************************************************)
(* Claims about the rate limiter (SpecRL).                                 *)
(***************************************************************************)
\* The step is a process_request that counted its request.
RLCounted == rl_last' # rl_last /\ rl_last'.outcome \in {"admitted", "rejected"}

\* C10: for any client and category with limit L and window length W, of that
\* client's requests processed one at a time inside one window exactly the first L
\* are admitted, the n-th with remaining = L - n (never negative), and every later
\* one is rejected with 429, remaining 0, reset_time = (window index + 1) * W and
\* retry_after = reset_time - now.
C10_FirstLAdmittedThenRejected ==
    [][RLCounted =>
        LET r == rl_last'
            L == rate_limits[r.category].requests
            W == rate_limits[r.category].window
        IN /\ r.limit = L /\ r.window = W
           /\ r.nth = seen[<<r.category, r.client>>] + 1
           /\ r.nth <= L =>
                 /\ r.outcome = "admitted" /\ r.status = 0
                 /\ r.remaining = L - r.nth /\ r.remaining >= 0
           /\ r.nth > L =>
                 /\ r.outcome = "rejected" /\ r.status = 429
                 /\ r.remaining = 0
                 /\ r.reset_time = ((now \div W) + 1) * W
                 /\ r.retry_after = r.reset_time - now']_vars

\* The request after the last admitted one of a limit of two or more is rejected.
C10_Witness ==
    /\ rl_last.outcome = "rejected"
    /\ rl_last.status = 429
    /\ rl_last.limit >= 2
    /\ rl_last.nth = rl_last.limit + 1
    /\ rl_last.retry_after = rl_last.reset_time - now

\* C11: a request authenticated by a valid bearer token that resolves to local user u
\* is counted under the client identity user:<u.id>; the ip:<address> identity is
\* used only for requests that carry no authenticated identity.
C11_BearerCountedAsUser ==
    (rl_last.outcome \in {"admitted", "rejected"} /\ rl_last.bearer # 0) =>
        rl_last.client = [kind |-> "user", user |-> rl_last.bearer, ip |-> ""]

\* C13: when a step of the middleware's request phase raises (cache read, cache
\* write, category or client lookup, ...), the middleware produces no response of
\* its own, neither a 429 nor a 5xx, and the request proceeds to the view.
C13_FaultFailsOpen ==
    rl_last.outcome = "error" =>
        /\ rl_last.status = 0
        /\ rl_last.status # 429 /\ rl_last.status \notin 500..599

\* A step raised during a request of a client that is over its limit.
C13_Witness ==
    /\ rl_last.outcome = "error"
    /\ \A req \in RLFaultRequests :
          ~ShouldSkipRateLimiting(req.path) =>
              ~CheckRateLimit(cache, now, GetClientIdentifier(req),
                              GetRateLimitCategory(req.path),
                              rate_limits[GetRateLimitCategory(req.path)]).is_allowed

(***************************************************************************)
(* Claims about the category selector (SpecCat).                           *)
(***************************************************************************)
\* Some segment of the path contains the word: the path contains it.
ContainsWord(path, segments) == \E i \in 1..Len(path) : path[i] \in segments

StartsWithApi(path) == Len(path) >= 1 /\ path[1] = "api"

\* The category and rate limit a path has when the generation categories are
\* selected by inPdf and inPreview.
CategoryIs(c, inPdf, inPreview) ==
    LET p == c.path IN
    /\ c.limit_category \in Categories
    /\ inPdf => c.limit_category = "pdf_generation"
    /\ (~inPdf /\ inPreview) => c.limit_category = "preview_generation"
    /\ (~inPdf /\ ~inPreview /\ StartsWithApi(p)) => c.limit_category = "api_general"
    /\ (~inPdf /\ ~inPreview /\ ~StartsWithApi(p)) => c.limit_category = "default"
    /\ c.limit_category = "pdf_generation" => c.rate_limit = [requests |-> 10, window |-> 900]
    /\ c.limit_category = "preview_generation" =>
          c.rate_limit = [requests |-> 100, window |-> 300]
    /\ c.limit_category = "api_general" => c.rate_limit = [requests |-> 1000, window |-> 3600]
    /\ c.limit_category = "default" => c.rate_limit = [requests |-> 100, window |-> 3600]

\* C12 as stated: every path containing generate-pdf maps to pdf_generation (10 per
\* 900s), every path containing generate-preview to preview_generation (100 per
\* 300s), every other path starting with /api/ to api_general (1000 per 3600s) and
\* every remaining path to default (100 per 3600s).
C12_CategoryByWord ==
    categorized.limit_category # "none" =>
        CategoryIs(categorized,
                   ContainsWord(categorized.path, GeneratePdfSegments),
                   ContainsWord(categorized.path, GeneratePreviewSegments))

\* C12: category selection is a total function of the path: every path containing
\* /api/pdf/generate-pdf maps to pdf_generation (10 per 900s), every other path
\* containing /api/pdf/generate-preview to preview_generation (100 per 300s), every
\* other path starting with /api/ to api_general (1000 per 3600s) and every
\* remaining path to default (100 per 3600s).
C12_CategoryByRoute ==
    categorized.limit_category # "none" =>
        CategoryIs(categorized,
                   \E i \in 1..(Len(categorized.path) - 2) :
                       /\ SubSeq(categorized.path, i, i + 1) = <<"api", "pdf">>
                       /\ categorized.path[i + 2] \in GeneratePdfSegments,
                   \E i \in 1..(Len(categorized.path) - 2) :
                       /\ SubSeq(categorized.path, i, i + 1) = <<"api", "pdf">>
                       /\ categorized.path[i + 2] \in GeneratePreviewSegments)

\* /api/pdf/generate-pdf-from-html/ was categorized as pdf_generation.
C12_Witness ==
    /\ categorized.path = <<"api", "pdf", "generate-pdf-from-html">>
    /\ categorized.limit_category = "pdf_generation"

(***************************************************************************)
(* Claims about the PDF service (SpecPdf).                                 *)
(***************************************************************************)
\* The step is a call of generate_pdf_with_cache.
PdfCalled == pdf_result' # pdf_result

\* C14: of two generate_pdf_with_cache calls with equal cv_data, visibility and
\* template_name (equal up to key order) made within the cache time-to-live, the
\* cache keys are equal, the second returns the bytes the first produced with
\* was_cached true and invokes neither HTML rendering nor the PDF engine; a call
\* whose generation fails stores nothing in the cache.
C14_SecondCallServedFromCache ==
    [][PdfCalled =>
        /\ \A g \in generated :
              (g.content = PdfContent(pdf_result'.request) /\ now - g.at < CacheTimeout) =>
                  /\ \E e \in cache : e.key = pdf_result'.cache_key /\ e.value = g.pdf_data
                  /\ pdf_result'.outcome = "returned"
                  /\ pdf_result'.was_cached
                  /\ pdf_result'.pdf_data = g.pdf_data
                  /\ render_count' = render_count
        /\ pdf_result'.outcome = "raised" => cache' \subseteq cache]_vars

\* A call was served from the cache with the keys of cv_data in another order than
\* in the call that generated the bytes.
C14_Witness ==
    /\ pdf_result.was_cached
    /\ pdf_result.request.cv_data = << <<"skills", "b">>, <<"summary", "a">> >>
    /\ render_count = 1

(***************************************************************************)
(* Claims about batch generation (SpecBatch).                              *)
(***************************************************************************)
Count(list, v) == Cardinality({k \in DOMAIN list : list[k] = v})

\* C15: generate_pdf_batch called with N requests returns a list of exactly N slots:
\* each request whose generation raises contributes exactly one null placeholder,
\* each request that succeeds contributes its PDF bytes, and a failing item neither
\* aborts the batch nor removes a sibling's result.
C15_BatchReturnsOneSlotPerRequest ==
    batch_pc = "returned" =>
        /\ Len(results) = Len(futures)
        /\ Count(results, None) =
              Cardinality({i \in DOMAIN futures : futures[i].fate = "raises"})
        /\ \A i \in DOMAIN futures :
              futures[i].fate = "returns" => Count(results, i) = 1

\* A batch of three returned with one failed item between two that succeeded.
C15_Witness ==
    /\ batch_pc = "returned"
    /\ Len(futures) = 3
    /\ futures[2].fate = "raises"
    /\ futures[1].fate = "returns" /\ futures[3].fate = "returns"

\* C16: generate_pdf_batch returns to its caller even when a submitted item never
\* completes (its slot is recorded as null after the per-item timeout).
C16_BatchReturns == (batch_pc = "waiting") ~> (batch_pc = "returned")

(***************************************************************************)
(* Claims about cleanup_generations (SpecCleanup).                         *)
(***************************************************************************)
\* The step is a run of the command.
CleanupRan == cleanup' # cleanup \/ gen_log' # gen_log

\* C17: a run with --dry-run deletes no Generation Log entry and modifies none, for
\* every --days threshold, every combination of --keep-failed and --stats and every
\* content of the table.
C17_DryRunChangesNothing ==
    [][(CleanupRan /\ cleanup'.dry_run) => gen_log' = gen_log]_vars

\* A dry run found entries older than its cutoff and left them in the table.
C17_Witness ==
    /\ cleanup.dry_run /\ ~cleanup.stats /\ ~cleanup.keep_failed
    /\ cleanup.outcome # "nothing"
    /\ CreatedBefore(gen_log, now - cleanup.days) # {}

\* C18: a confirmed run without --dry-run terminates having removed exactly the
\* entries created before now - d days (with --keep-failed only successful ones),
\* every entry at or after the cutoff is still present and unchanged, and a declined
\* confirmation deletes nothing.
C18_ConfirmedCleanupRemovesOldEntries ==
    [][(CleanupRan /\ ~cleanup'.dry_run) =>
        LET cutoff_date == now - cleanup'.days IN
        IF cleanup'.confirm = "y"
        THEN /\ gen_log' \subseteq gen_log
             /\ gen_log \ CreatedBefore(gen_log, cutoff_date) \subseteq gen_log'
             /\ ~cleanup'.keep_failed => CreatedBefore(gen_log', cutoff_date) = {}
             /\ cleanup'.keep_failed => cleanup'.outcome # "FieldError"
        ELSE gen_log' = gen_log]_vars

(***************************************************************************)
(* Claims about bearer authentication (SpecAuth).                          *)
(***************************************************************************)
\* The header is the keyword Bearer, one space, and one token segment.
BearerHeader(h) ==
    /\ h.present
    /\ Len(h.value) >= 3
    /\ h.value[1] = "Bearer"
    /\ h.value[2] = " "
    /\ \A i \in 3..Len(h.value) : h.value[i] # " "

TokenOf(h) == SubSeq(h.value, 3, Len(h.value))

\* The user cannot be resolved: the database fails, or no user has the
\* identity's id as username and several have its email.
ResolutionFails(users, supabase_user, db_ok) ==
    \/ ~db_ok
    \/ /\ \A u \in users : u.username # supabase_user.id
       /\ Cardinality({u \in users : u.email = supabase_user.email}) > 1

AuthDone == auth_result.outcome \notin {"idle", "pending"}

\* C19: authentication ends in one of three ways.  A header that is absent or
\* is not Bearer followed by one token segment gives no identity, and the
\* verifier is not called.  Otherwise the verifier is called; when it answers
\* with a user and the user is resolved, the outcome is that local user with
\* the token; every failure is AuthenticationFailed in the required variant
\* and no identity in the optional one, which never fails.
C19_ThreeOutcomes ==
    AuthDone =>
        LET h == auth_request.header
            r == auth_result
            ok == /\ r.response.kind = "user"
                  /\ ~ResolutionFails(r.users_before, r.response.user, r.db_ok)
        IN
        /\ r.outcome \in {"none", "identity", "AuthenticationFailed"}
        /\ auth_request.variant = "optional" => r.outcome # "AuthenticationFailed"
        /\ ~BearerHeader(h) =>
              /\ r.outcome = "none"
              /\ ~r.verifier_called
              /\ auth_users = r.users_before
        /\ BearerHeader(h) => r.verifier_called
        /\ BearerHeader(h) /\ ok =>
              /\ r.outcome = "identity"
              /\ r.token = TokenOf(h)
              /\ r.user.username = r.response.user.id
              /\ r.user \in auth_users
              /\ r.supabase_user = r.response.user
        /\ BearerHeader(h) /\ ~ok =>
              /\ r.outcome = IF auth_request.variant = "required"
                             THEN "AuthenticationFailed" ELSE "none"
              /\ auth_users = r.users_before

\* The verifier answered with a user, the database worked, and two users hold
\* the email: the required variant fails with AuthenticationFailed.
C19_Witness ==
    /\ auth_result.outcome = "AuthenticationFailed"
    /\ auth_result.response.kind = "user"
    /\ auth_result.db_ok
    /\ BearerHeader(auth_request.header)

(***************************************************************************)
(* Claims about the system health endpoint (SpecHealth).                   *)
(***************************************************************************)
HealthAsked == health.status # "none"

\* The database answers, the cache returns what was stored, and the
\* rendering engine can be imported.
ProbesSucceed(probes) ==
    /\ probes.database = "ok"
    /\ probes.cache = "hit"
    /\ probes.engine = "ok"

\* C20: the health endpoint answers healthy with 200 when the database, the
\* cache round trip and the rendering engine all work, and degraded with 206
\* when one of them fails, whatever happens to the aggregate counts.
C20_HealthyIffProbesSucceed ==
    HealthAsked =>
        IF ProbesSucceed(health.probes)
        THEN health.status = "healthy" /\ health.status_code = 200
        ELSE health.status = "degraded" /\ health.status_code = 206

(***************************************************************************)
(* Claims about the middleware chain (SpecMw).                             *)
(***************************************************************************)
MwServed == mw_last.response.status # 0

\* C21: every response that leaves the chain carries X-Frame-Options: DENY,
\* and carries Strict-Transport-Security exactly when DEBUG is off.
C21_SecurityHeadersOnEveryResponse ==
    MwServed =>
        /\ mw_last.response.x_frame_options = "DENY"
        /\ (mw_last.response.strict_transport_security # "absent") <=> ~debug

(***************************************************************************)
(* Claims about the suggested file name (SpecFn).                          *)
(***************************************************************************)
EmptyCvData ==
    [kind |-> "dict", personal_info |-> "absent", first_name |-> NoName,
     last_name |-> NoName]

JohnDoe ==
    [kind |-> "dict", personal_info |-> "dict",
     first_name |-> [kind |-> "str", value |-> John],
     last_name |-> [kind |-> "str", value |-> Doe]]

\* C22: the name is John_Doe_Resume.pdf for John Doe, CV_Resume.pdf for the
\* empty map, and for every input consists of alphanumerics, period,
\* underscore and hyphen only.
C22_SuggestedFilename ==
    suggested.called =>
        /\ suggested.cv_data = JohnDoe =>
                suggested.filename = John \o <<"_">> \o Doe \o <<"_">>
                    \o <<"R", "e", "s", "u", "m", "e", ".", "p", "d", "f">>
        /\ suggested.cv_data = EmptyCvData => suggested.filename = CV_Resume_pdf
        /\ \A i \in 1..Len(suggested.filename) :
                \/ IsAlnum(suggested.filename[i])
                \/ suggested.filename[i] \in {".", "_", "-"}

(***************************************************************************)
(* Claims about the counters of the generation pool (SpecPool).            *)
(***************************************************************************)
\* C23: active_generations is the number of tasks submitted and not yet
\* finished, generation_count the number of submit_generation calls,
\* 0 <= active_generations <= generation_count, and active_generations is 0
\* once every submitted task has finished.
C23_PoolCounters ==
    /\ active_generations = pool_calls.submitting + pool_calls.pending
    /\ generation_count = CallsMade
    /\ 0 <= active_generations
    /\ active_generations <= generation_count
    /\ pool_calls.submitting + pool_calls.pending = 0 => active_generations = 0

(***************************************************************************)
(* Claims about the global generation pool (SpecSingleton).                *)
(***************************************************************************)
\* C24: at most one PDFGenerationPool is ever created, and every caller of
\* get_pdf_pool receives that instance.
C24_OnePoolForAll ==
    /\ pools_created <= 1
    /\ \A v, w \in DOMAIN getters :
            getters[v].pc = "done" /\ getters[w].pc = "done"
                => getters[v].got = getters[w].got

(***************************************************************************)
(* Claims about the rate limiter under concurrent requests (SpecRLConc).   *)
(***************************************************************************)
\* C25: the counter the cache holds never exceeds the limit (while, as the
\* witness shows, more than limit requests of one window can be admitted).
C25_StoredCounterWithinLimit ==
    \A e \in cache : e.value <= rate_limits[e.key[1]].requests

\* More requests than the limit were admitted in one window.
C25_Witness ==
    \E k \in DOMAIN rl_admitted :
        rl_admitted[k] > rate_limits[ConcCategory].requests

(***************************************************************************)
(* Claims about the rate limiter over several windows (SpecRLWin).         *)
(***************************************************************************)
\* What the pair of category and client would find under its key at time t.
CountAt(c, pair, t) ==
    CacheGet(c, <<pair[1], pair[2], t \div rate_limits[pair[1]].window>>, 0, t)

\* C26: a request is admitted exactly when fewer than limit requests of its
\* client and category came before it in its window, so the first request of
\* a window is admitted; it leaves what every other client and category finds
\* in the cache as it was; a rejected request adds nothing to the cache; and
\* two adjacent windows admit at most 2 * limit requests of a client and
\* category.
C26_AllowancePerClientCategoryWindow ==
    [][RLCounted =>
        LET r == rl_last'
            pair == <<r.category, r.client>>
            L == rate_limits[r.category].requests
        IN
        /\ r.outcome = "admitted" <=> seen[pair] < L
        /\ seen[pair] = 0 => r.outcome = "admitted"
        /\ \A other \in DOMAIN seen :
                other # pair => CountAt(cache', other, now') = CountAt(cache, other, now')
        /\ r.outcome = "rejected" => cache' \subseteq cache
        /\ \A j \in 0..(MaxTime - 1) :
                rl_hist'[j].admitted + rl_hist'[j + 1].admitted
                    <= 2 * rate_limits["pdf_generation"].requests
    ]_vars

\* The client, rejected in one window, was admitted in the next, and the two
\* windows admitted 2 * limit of its requests.
C26_Witness ==
    /\ rl_last.outcome = "admitted"
    /\ Observed(rl_last.category, rl_last.client)
    /\ \E j \in 0..(MaxTime - 1) :
           /\ j + 1 = rl_last.checked_at \div rate_limits[rl_last.category].window
           /\ rl_hist[j].rejected
           /\ rl_hist[j].admitted + rl_hist[j + 1].admitted
                = 2 * rate_limits[rl_last.category].requests

(***************************************************************************)
(* Claims about the generation log (SpecGen).                              *)
(***************************************************************************)
\* C27: every call of the synchronous generation path appends an entry to
\* the generation log, whether it succeeds or fails; a failing call raises
\* the original exception, and a failure of the tracking step is not raised.
C27_EveryGenerationLogged ==
    [][gen_last' # gen_last =>
        /\ Cardinality(gen_log') = Cardinality(gen_log) + 1
        /\ gen_last'.raised = IF gen_last'.fate = "ok" THEN "none" ELSE gen_last'.fate
    ]_vars

\* ---------------------------------------------------------------------------
\* Part 16.  SupabaseAuthentication.get_or_create_django_user called by
\* concurrent requests: each query and each write is one step on table auth_user.
\* ---------------------------------------------------------------------------

MaxResolutions == 4

ResThreads == {"r1", "r2"}

\* A row of auth_user: Django gives it a primary key, username is unique.
ResRow(pk, username, email) == [pk |-> pk, username |-> username, email |-> email]

\* The tables the service may start with: empty, one account that predates the
\* external provider, two such accounts with one email address.
ResTables ==
    { {},
      {ResRow(1, "admin", "e1")},
      {ResRow(1, "admin", "e1"), ResRow(2, "staff", "e1")} }

NoUserRow == ResRow(0, "", "")

ResIdle ==
    [pc |-> "idle", supabase_user |-> NoSupabaseUser, user |-> NoUserRow, created |-> FALSE,
     prior |-> {}]

\* The primary keys that resolutions of the identity have returned so far.
ReturnedFor(supabase_user) ==
    {r.user.pk : r \in {q \in res_resolved : q.supabase_user = supabase_user}}

\* The primary key of the next inserted row.
NextPk(users) == Cardinality(users) + 1

\* user.username = supabase_id
SetUsername(user, supabase_id) == [user EXCEPT !.username = supabase_id]

\* The unique constraint of auth_user.username refuses the write of row pk.
UsernameTaken(users, pk, username) ==
    \E u \in users : u.username = username /\ u.pk # pk

InitResolve ==
    /\ InitCV /\ InitWorkers /\ InitRL /\ InitCat /\ InitPdf /\ InitPool /\ InitLog
    /\ InitAuth /\ InitHealth /\ InitNotRes
    /\ res_users \in ResTables
    /\ res_threads = [t \in ResThreads |-> ResIdle]
    /\ res_resolved = {}
    /\ res_calls = 0

ResOthers == <<cvVars, rlVars, catVars, pdfVars, batchVars, logVars, authVars, healthVars, notResVars>>

\* A request with a verified token enters get_or_create_django_user.
ResolveBegin(t, supabase_user) ==
    /\ res_threads[t].pc = "idle"
    /\ res_calls < MaxResolutions
    /\ res_calls' = res_calls + 1
    /\ res_threads' = [res_threads EXCEPT ![t] =
            [pc |-> "get_username", supabase_user |-> supabase_user, user |-> NoUserRow,
             created |-> FALSE, prior |-> ReturnedFor(supabase_user)]]
    /\ UNCHANGED <<res_users, res_resolved, ResOthers>>

\* user = User.objects.get(username=supabase_id)
ResolveGetByUsername(t) ==
    LET th == res_threads[t]
        found == {u \in res_users : u.username = th.supabase_user.id}
    IN
    /\ th.pc = "get_username"
    /\ res_threads' = [res_threads EXCEPT ![t] =
            IF found = {}
            THEN [th EXCEPT !.pc = "get_email"]
            ELSE [th EXCEPT !.pc = "return", !.user = CHOOSE u \in found : TRUE]]
    /\ UNCHANGED <<res_users, res_resolved, res_calls, ResOthers>>

\* user = User.objects.get(email=email); more than one row raises
\* MultipleObjectsReturned, which the outer except turns into AuthenticationFailed.
ResolveGetByEmail(t) ==
    LET th == res_threads[t]
        found == {u \in res_users : u.email = th.supabase_user.email}
    IN
    /\ th.pc = "get_email"
    /\ res_threads' = [res_threads EXCEPT ![t] =
            IF found = {}
            THEN [th EXCEPT !.pc = "create"]
            ELSE IF Cardinality(found) > 1
            THEN ResIdle
            ELSE [th EXCEPT !.pc = "save",
                            !.user = SetUsername(CHOOSE u \in found : TRUE,
                                                 th.supabase_user.id)]]
    /\ UNCHANGED <<res_users, res_resolved, res_calls, ResOthers>>

\* user.save(): the row with the object's primary key takes the object's fields;
\* a username another row holds raises IntegrityError.
ResolveSave(t) ==
    LET th == res_threads[t] IN
    /\ th.pc = "save"
    /\ IF UsernameTaken(res_users, th.user.pk, th.user.username)
       THEN /\ res_threads' = [res_threads EXCEPT ![t] = ResIdle]
            /\ UNCHANGED res_users
       ELSE /\ res_users' = {u \in res_users : u.pk # th.user.pk} \cup {th.user}
            /\ res_threads' = [res_threads EXCEPT ![t] = [th EXCEPT !.pc = "return"]]
    /\ UNCHANGED <<res_resolved, res_calls, ResOthers>>

\* user = User.objects.create_user(username=supabase_id, email=email, ...)
ResolveCreateUser(t) ==
    LET th == res_threads[t]
        row == ResRow(NextPk(res_users), th.supabase_user.id, th.supabase_user.email)
    IN
    /\ th.pc = "create"
    /\ IF UsernameTaken(res_users, row.pk, row.username)
       THEN /\ res_threads' = [res_threads EXCEPT ![t] = ResIdle]
            /\ UNCHANGED res_users
       ELSE /\ res_users' = res_users \cup {row}
            /\ res_threads' = [res_threads EXCEPT ![t] =
                    [th EXCEPT !.pc = "return", !.user = row, !.created = TRUE]]
    /\ UNCHANGED <<res_resolved, res_calls, ResOthers>>

\* return user
ResolveReturn(t) ==
    LET th == res_threads[t] IN
    /\ th.pc = "return"
    /\ res_resolved' = res_resolved \cup
            {[supabase_user |-> th.supabase_user, user |-> th.user, created |-> th.created,
              prior |-> th.prior]}
    /\ res_threads' = [res_threads EXCEPT ![t] = ResIdle]
    /\ UNCHANGED <<res_users, res_calls, ResOthers>>

NextResolve ==
    \/ \E t \in ResThreads, supabase_user \in SupabaseUsers : ResolveBegin(t, supabase_user)
    \/ \E t \in ResThreads : ResolveGetByUsername(t)
    \/ \E t \in ResThreads : ResolveGetByEmail(t)
    \/ \E t \in ResThreads : ResolveSave(t)
    \/ \E t \in ResThreads : ResolveCreateUser(t)
    \/ \E t \in ResThreads : ResolveReturn(t)

SpecResolve == InitResolve /\ [][NextResolve]_vars

\* The rows of auth_user whose username is the external id.
LocalUsersOf(id) == {u \in res_users : u.username = id}

\* C28: a successful resolution returns a user whose username is the external
\* id; a resolution begun after one of the same identity returned, returns the
\* same local user and creates none; and auth_user never holds two users with
\* one external id as username, whatever the interleaving.
C28_OneLocalUserPerIdentity ==
    /\ \A r \in res_resolved : r.user.username = r.supabase_user.id
    /\ \A r \in res_resolved : r.prior # {} => r.user.pk \in r.prior /\ ~r.created
    /\ \A id \in SupabaseIds : Cardinality(LocalUsersOf(id)) <= 1

\* C29: two identities with different external ids never resolve to the same
\* local user record, the same email address included.
C29_DistinctIdsDistinctUsers ==
    \A r, q \in res_resolved :
        r.supabase_user.id # q.supabase_user.id => r.user.pk # q.user.pk

\* ---------------------------------------------------------------------------
\* Part 17.  CVPDFService.html_to_pdf and
\* EnhancedCVPDFService._html_to_pdf_optimized: the temporary HTML file.
\* ---------------------------------------------------------------------------

MaxTmpFiles == 3

\* What each step of a conversion may do: return, or raise.
StepOutcomes == {"ok", "raises"}

ConversionOutcomes ==
    [config : StepOutcomes, create : StepOutcomes, write : StepOutcomes,
     construct : StepOutcomes, css : StepOutcomes, render : StepOutcomes]

\* The body both services share, from the template's configuration to the
\* finally clause.  NamedTemporaryFile(delete=False) creates the file; leaving
\* the with block closes it and keeps it; os.unlink runs in the finally clause
\* of the inner try, which is entered after the with block.
ConvertWithTempFile(files, made, o) ==
    LET path == made + 1 IN
    IF o.config = "raises"
    THEN [files |-> files, made |-> made, path |-> 0, failed |-> TRUE]
    ELSE IF o.create = "raises"
    THEN [files |-> files, made |-> made, path |-> 0, failed |-> TRUE]
    ELSE IF o.write = "raises"
    THEN [files |-> files \cup {path}, made |-> path, path |-> path, failed |-> TRUE]
    ELSE [files |-> (files \cup {path}) \ {path}, made |-> path, path |-> path,
          failed |-> o.construct = "raises" \/ o.css = "raises" \/ o.render = "raises"]

InitTmp ==
    /\ InitCV /\ InitWorkers /\ InitRL /\ InitCat /\ InitPdf /\ InitPool /\ InitLog
    /\ InitAuth /\ InitHealth /\ InitNotTmp
    /\ tmp_files = {}
    /\ tmp_made = 0
    /\ tmp_last = NoConversion

TmpOthers == <<cvVars, rlVars, catVars, pdfVars, batchVars, logVars, authVars, healthVars, notTmpVars>>

\* CVPDFService.html_to_pdf: every exception leaves as PDFGenerationError.
HtmlToPdf(o) ==
    LET c == ConvertWithTempFile(tmp_files, tmp_made, o) IN
    /\ tmp_made < MaxTmpFiles
    /\ tmp_files' = c.files
    /\ tmp_made' = c.made
    /\ tmp_last' = [service |-> "base", path |-> c.path, outcomes |-> o,
                    raised |-> IF c.failed THEN "PDFGenerationError" ELSE "none"]
    /\ UNCHANGED TmpOthers

\* EnhancedCVPDFService._html_to_pdf_optimized: the exception is raised again;
\* _get_optimized_css catches what loading the CSS raises.
HtmlToPdfOptimized(o) ==
    LET caught == [o EXCEPT !.css = "ok"]
        c == ConvertWithTempFile(tmp_files, tmp_made, caught)
    IN
    /\ tmp_made < MaxTmpFiles
    /\ tmp_files' = c.files
    /\ tmp_made' = c.made
    /\ tmp_last' = [service |-> "enhanced", path |-> c.path, outcomes |-> o,
                    raised |-> IF c.failed THEN "Exception" ELSE "none"]
    /\ UNCHANGED TmpOthers

NextTmp ==
    \/ \E o \in ConversionOutcomes : HtmlToPdf(o)
    \/ \E o \in ConversionOutcomes : HtmlToPdfOptimized(o)

SpecTmp == InitTmp /\ [][NextTmp]_vars

\* C30: after a conversion returns or raises, in the base and in the enhanced
\* service, the temporary file it created no longer exists, whatever writing
\* the file, constructing the document, loading CSS and rendering did.
C30_TempFileRemoved ==
    tmp_last.path # 0 => tmp_last.path \notin tmp_files


====
